---- MODULE Spec2Model ----
(***************************************************************************)
(* Package-descriptor pipeline of proton-repo-proxy.                       *)
(*                                                                         *)
(* One batch run loads the descriptor cache from the key-value store,      *)
(* enumerates the candidate files of the vendor manifests, reuses or       *)
(* rebuilds one descriptor per candidate URL and writes the whole map     *)
(* back.  Four entry points are modelled:                                  *)
(*   "gh"      src/github/update-descriptors/download-and-descriptors-all  *)
(*   "gh_old"  its predecessor (unnamed/part_016)                          *)
(*   "dev"     src/dev/calculate-descriptors.ts                            *)
(*   "legacy"  the hash-only download-and-hash-all (unnamed/part_017)      *)
(* A behaviour is a sequence of runs of one entry point against one store  *)
(* key.                                                                    *)
(***************************************************************************)
EXTENDS Integers, Sequences, FiniteSets, TLC

\* ------------------------------------------------------------------------
\* Bounds of the model
\* ------------------------------------------------------------------------

\* number of runs in a behaviour
MaxRuns == 2
\* number of hex characters of a modelled digest
HexLen == 2
\* number of failing requests, corrupted downloads and failing extractions
\* the environment injects into one run
MaxFaults == 1

\* ------------------------------------------------------------------------
\* Vendor data
\* ------------------------------------------------------------------------

PROTON_PRODUCTS == <<"mail", "pass">>

PROTON_IDENTIFIER_PREFIX == [DEB |-> ".deb", RPM |-> ".rpm"]

PROTON_IGNORE_FILE_URLS == {"mail/beta.deb", "mail/beta.rpm"}

\* hex characters that occur in the modelled digests
HexChars == {"a", "b", "A", "B"}

\* String.prototype.toLowerCase on one character
LowerChar(c) == CASE c = "A" -> "a" [] c = "B" -> "b" [] OTHER -> c

\* String.prototype.toLowerCase on a digest string
ToLowerCase(s) == [i \in DOMAIN s |-> LowerChar(s[i])]

\* the byte contents a download can deliver for a URL
Contents == {"good", "bad"}

\* createHash('sha512').update(buffer).digest('hex'): lower-case hex,
\* different contents give different digests
Sha512Hex(content) == [i \in 1..HexLen |-> IF content = "good" THEN "a" ELSE "b"]

\* the digest of the good content as the vendor writes it in upper case
UpperDigest == [i \in 1..HexLen |-> "A"]

\* String.prototype.startsWith on the identifiers of the manifests
StartsWith(id, prefix) ==
  CASE id = ".deb"     -> prefix = ".deb"
    [] id = ".deb-x64" -> prefix = ".deb"
    [] id = ".rpm"     -> prefix = ".rpm"
    [] OTHER           -> FALSE

\* String.prototype.toLowerCase on the identifiers of the manifests
IdentifierToLowerCase(id) ==
  CASE id = ".DEB" -> ".deb"
    [] id = ".RPM" -> ".rpm"
    [] OTHER       -> id

\* Url.endsWith('.deb') on the URLs of the manifests
UrlEndsWithDeb(url) ==
  url \in {"mail/1.9.1.deb", "mail/1.9.0.deb", "mail/1.8.0.deb", "mail/beta.deb",
           "pass/1.32.10.deb", "pass/1.32.9.deb", "evil/app.deb"}

File(id, url, sum) == [Identifier |-> id, Url |-> url, Sha512CheckSum |-> sum]

\* the releases of mail, newest first; the newest one is published between
\* two manifest versions
MailReleases(version) ==
  (IF version = 2
     THEN << [Version |-> "1.9.1",
              File |-> << File(".deb", "mail/1.9.1.deb", UpperDigest),
                          File(".rpm", "mail/1.9.1.rpm", Sha512Hex("good")) >>] >>
     ELSE << >>)
  \o
  << [Version |-> "1.9.0",
      File |-> << File(".deb", "mail/beta.deb", Sha512Hex("good")),
                  File(".deb-x64", "mail/1.9.0.deb", Sha512Hex("good")) >>],
     [Version |-> "1.8.0",
      File |-> << File(".deb", "mail/1.8.0.deb", Sha512Hex("good")) >>] >>

PassReleases ==
  << [Version |-> "1.32.10",
      File |-> << File(".deb", "pass/1.32.10.deb", Sha512Hex("good")) >>],
     [Version |-> "1.32.9",
      File |-> << File(".deb", "pass/1.32.9.deb", Sha512Hex("good")) >>] >>

\* the vendor manifest (version.json) of a product
ManifestOf(product, version) ==
  [Releases |-> IF product = "mail" THEN MailReleases(version) ELSE PassReleases]

ManifestVersions == {1, 2}

\* the text classes of a control field, by what the shell does to them
\* inside double quotes: "plain" has no special character, "dollar" holds a
\* parameter expansion, "backslash" holds a backslash; "expanded" and
\* "badescape" are what the shell leaves of the last two; "none" is an
\* absent field
TextKinds == {"plain", "dollar", "backslash"}

\* the URL whose package carries the Description chosen for the behaviour
SpecialTextUrl == "pass/1.32.9.deb"

\* ------------------------------------------------------------------------
\* Pure operators
\* ------------------------------------------------------------------------

EmptyMap == [u \in {} |-> 0]

\* obj[key] = value on a plain object
Put(map, key, value) ==
  [k \in (DOMAIN map) \cup {key} |-> IF k = key THEN value ELSE map[k]]

\* the files of a sequence of releases, in order, tagged with product and version
RECURSIVE FlatFiles(_, _)
FlatFiles(product, releases) ==
  IF releases = << >> THEN << >>
  ELSE [i \in DOMAIN Head(releases).File |->
          [product |-> product, version |-> Head(releases).Version,
           file |-> Head(releases).File[i]]]
       \o FlatFiles(product, Tail(releases))

\* the filter of the workflow scripts: identifier case-folded, deb prefix,
\* URL present and not ignored
IsCandidateGh(f) ==
  /\ StartsWith(IdentifierToLowerCase(f.file.Identifier), PROTON_IDENTIFIER_PREFIX.DEB)
  /\ f.file.Url # ""
  /\ f.file.Url \notin PROTON_IGNORE_FILE_URLS

RECURSIVE CollectProducts(_, _)
CollectProducts(products, version) ==
  IF products = << >> THEN << >>
  ELSE SelectSeq(FlatFiles(Head(products), ManifestOf(Head(products), version).Releases),
                 IsCandidateGh)
       \o CollectProducts(Tail(products), version)

\* step 3 of main: allFiles
CollectAllFiles(version) == CollectProducts(PROTON_PRODUCTS, version)

\* the filter of processProduct: not ignored, identifier starts with a prefix
IsCandidateDev(f) ==
  /\ f.file.Url \notin PROTON_IGNORE_FILE_URLS
  /\ \E prefix \in {PROTON_IDENTIFIER_PREFIX.DEB} : StartsWith(f.file.Identifier, prefix)

\* the files processProduct walks through, release by release
ProductFiles(product, version) ==
  SelectSeq(FlatFiles(product, ManifestOf(product, version).Releases), IsCandidateDev)

\* release.File.find((f) => f.Url.endsWith('.deb')): the first such file, if any
RECURSIVE FindDeb(_)
FindDeb(files) ==
  IF files = << >> THEN << >>
  ELSE IF UrlEndsWithDeb(Head(files).Url) THEN << Head(files) >>
  ELSE FindDeb(Tail(files))

\* the file processAllProducts takes from each release of a product
RECURSIVE DebFiles(_, _)
DebFiles(product, releases) ==
  IF releases = << >> THEN << >>
  ELSE [i \in DOMAIN FindDeb(Head(releases).File) |->
          [product |-> product, version |-> Head(releases).Version,
           file |-> FindDeb(Head(releases).File)[i]]]
       \o DebFiles(product, Tail(releases))

\* ------------------------------------------------------------------------
\* Manifest validation
\* ------------------------------------------------------------------------

\* URLs of a host other than PROTON_SERVER, and strings that are no URL;
\* every other URL of the model lies under PROTON_SERVER
ForeignUrls == {"evil/app.deb"}
MalformedUrls == {"not a url"}

\* u.startsWith(PROTON_SERVER)
UrlStartsWithServer(url) == url \notin ForeignUrls \cup MalformedUrls

\* z.url()
IsUrl(url) == url \notin MalformedUrls \cup {""}

\* a digest schema that admits hex strings of any length
Sha512Schema_AnyLength(sum) == \A i \in DOMAIN sum : sum[i] \in HexChars

\* Sha512Schema: exactly the digest length, hex characters of either case
Sha512Schema(sum) == Len(sum) = HexLen /\ \A i \in DOMAIN sum : sum[i] \in HexChars

\* ProtonIdentifierSchema: starts with .deb or .rpm as written
ProtonIdentifierSchema(id) ==
  StartsWith(id, PROTON_IDENTIFIER_PREFIX.DEB) \/ StartsWith(id, PROTON_IDENTIFIER_PREFIX.RPM)

ProtonFileSchema(f) ==
  /\ ProtonIdentifierSchema(f.Identifier)
  /\ IsUrl(f.Url)
  /\ Sha512Schema(f.Sha512CheckSum)

\* ProtonApiResponseSchema.parse succeeds: at least one release, every file
\* of every release passes ProtonFileSchema
ProtonApiResponseSchema(m) ==
  /\ Len(m.Releases) >= 1
  /\ \A r \in DOMAIN m.Releases :
       \A i \in DOMAIN m.Releases[r].File : ProtonFileSchema(m.Releases[r].File[i])

\* validateAPIFile returns: the schema, a release, every non-empty URL of
\* every release under PROTON_SERVER
ValidateAPIFile(m) ==
  /\ ProtonApiResponseSchema(m)
  /\ Len(m.Releases) # 0
  /\ \A r \in DOMAIN m.Releases :
       \A i \in DOMAIN m.Releases[r].File :
         m.Releases[r].File[i].Url # "" => UrlStartsWithServer(m.Releases[r].File[i].Url)

\* fetchProtonProductAPI returns: the schema only
FetchProtonProductAPI(m) == ProtonApiResponseSchema(m)

\* fetchAllReleases of the hash-only script returns: the schema, a release
FetchAllReleases(m) == ProtonApiResponseSchema(m) /\ Len(m.Releases) # 0

\* fetchLatestVersion returns: the schema, and the URLs of the files of the
\* first release under PROTON_SERVER
FetchLatestVersion(m) ==
  /\ ProtonApiResponseSchema(m)
  /\ \A i \in DOMAIN m.Releases[1].File :
       m.Releases[1].File[i].Url # "" => UrlStartsWithServer(m.Releases[1].File[i].Url)

\* the workflow hands the manifest files of the cache directory to the
\* descriptor script after its validation step has passed
WorkflowLoad(m) == ValidateAPIFile(m)

\* the Description of the package behind a URL
DescriptionOf(url, text) == IF url = SpecialTextUrl THEN text ELSE "plain"

NoDigest == << >>

Failure(kind, expected, computed) ==
  [kind |-> kind, expected |-> expected, computed |-> computed]

\* a digest check that accepts every computed digest
Sha512Matches_AcceptsAll(file, sha512) == TRUE

\* the validation of computeHashDescriptor: the computed digest against the
\* lower-cased vendor digest
Sha512Matches(file, sha512) == sha512 = ToLowerCase(file.Sha512CheckSum)

\* the errors the three concurrent parts of DescriptorFromFile raise:
\* HEAD for the size, GET for the buffer, then digests and dpkg-deb
DescriptorErrors(file, head, get, extractOk) ==
  (IF head = "fail" THEN {Failure("head", NoDigest, NoDigest)} ELSE {})
  \cup
  (IF get = "fail"
     THEN {Failure("download", NoDigest, NoDigest)}
     ELSE (IF ~Sha512Matches(file, Sha512Hex(get))
             THEN {Failure("mismatch", ToLowerCase(file.Sha512CheckSum), Sha512Hex(get))}
             ELSE {})
          \cup
          (IF ~extractOk THEN {Failure("extract", NoDigest, NoDigest)} ELSE {}))

\* url.split('/') on the URLs of the manifests, after the origin
Segments(url) ==
  CASE url = "mail/1.9.1.deb"   -> << "mail", "1.9.1.deb" >>
    [] url = "mail/1.9.0.deb"   -> << "mail", "1.9.0.deb" >>
    [] url = "mail/1.8.0.deb"   -> << "mail", "1.8.0.deb" >>
    [] url = "mail/beta.deb"    -> << "mail", "beta.deb" >>
    [] url = "pass/1.32.10.deb" -> << "pass", "1.32.10.deb" >>
    [] url = "pass/1.32.9.deb"  -> << "pass", "1.32.9.deb" >>
    [] url = "evil/app.deb"     -> << "evil", "app.deb" >>
    [] OTHER                    -> << url >>

\* url.split('/').pop(): the file name, a string
Basename(url) == Segments(url)[Len(Segments(url))]

\* url.replace('https://proton.me/', 'proxy/'): the whole path under proxy/
ProxyPath(url) == << "proxy" >> \o Segments(url)

\* the value DescriptorFromFile resolves to when no part rejects: a
\* DescriptorResult around the descriptor, which carries no lastVerified (0)
DescriptorFromFile(file, get, text) ==
  [success |-> TRUE,
   descriptor |-> [url |-> file.Url, filename |-> Basename(file.Url),
                   sha512 |-> Sha512Hex(get),
                   description |-> DescriptionOf(file.Url, text), lastVerified |-> 0]]

\* a value of the descriptor map: the PackageDescriptor itself, or the
\* DescriptorResult object that holds it
Bare(d) == [wrapper |-> FALSE, descriptor |-> d]
Wrapped(result) == [wrapper |-> TRUE, descriptor |-> result.descriptor]

\* ------------------------------------------------------------------------
\* Key-value store
\* ------------------------------------------------------------------------

\* what /bin/sh leaves of a text inside the double quotes of the put command
ShellDoubleQuoted(t) ==
  CASE t = "dollar"    -> "expanded"
    [] t = "backslash" -> "badescape"
    [] OTHER           -> t

NoValue == [present |-> FALSE, map |-> EmptyMap]

\* setKvValue: JSON.stringify of the map, double quotes escaped, handed to the
\* shell as one double-quoted argument of wrangler kv key put
SetKvValue(cache) ==
  [present |-> TRUE,
   map |-> [u \in DOMAIN cache |->
              [cache[u] EXCEPT !.descriptor.description = ShellDoubleQuoted(@)]]]

\* JSON.parse of a stored value throws on an invalid escape sequence
JsonParses(value) ==
  \A u \in DOMAIN value.map : value.map[u].descriptor.description # "badescape"

\* getKvValue: null when the key does not exist (404), the error of any other
\* failed read is thrown again, otherwise the stored string
GetKvValue(value, read) ==
  IF read = "error" THEN [threw |-> TRUE, present |-> FALSE, map |-> EmptyMap]
  ELSE [threw |-> FALSE, present |-> value.present, map |-> value.map]

NullCache == [threw |-> FALSE, isNull |-> TRUE, map |-> EmptyMap]

\* a load without the catch: the error of a failed read reaches the caller
DownloadDescriptorsCache_NoCatch(value, read) ==
  LET cached == GetKvValue(value, read)
  IN IF cached.threw THEN [threw |-> TRUE, isNull |-> TRUE, map |-> EmptyMap]
     ELSE IF ~cached.present THEN NullCache
     ELSE [threw |-> FALSE, isNull |-> FALSE, map |-> cached.map]

\* downloadDescriptorsCache: the parsed map, null for a missing key, and null
\* from the catch around getKvValue and JSON.parse
DownloadDescriptorsCache(value, read) ==
  LET cached == GetKvValue(value, read)
  IN IF cached.threw THEN NullCache
     ELSE IF ~cached.present THEN NullCache
     ELSE IF ~JsonParses(cached) THEN NullCache
     ELSE [threw |-> FALSE, isNull |-> FALSE, map |-> cached.map]

\* getHashCache of the hash-only script: the parsed map, {} otherwise
GetHashCache(value, read) ==
  LET cached == GetKvValue(value, read)
  IN IF cached.threw \/ ~cached.present \/ ~JsonParses(cached)
       THEN [threw |-> FALSE, isNull |-> FALSE, map |-> EmptyMap]
       ELSE [threw |-> FALSE, isNull |-> FALSE, map |-> cached.map]

\* cache ?? {}
OrEmpty(cache) ==
  IF cache.isNull THEN [cache EXCEPT !.isNull = FALSE, !.map = EmptyMap] ELSE cache

\* ------------------------------------------------------------------------
\* State
\* ------------------------------------------------------------------------

VARIABLES
  script,        \* the entry point the runs of this behaviour execute
  pkgText,       \* the Description text class of the package at SpecialTextUrl
  store,         \* the value under the cache key of the remote store
  runNo,         \* number of runs started; also the clock of lastVerified
  phase,         \* position of the current run in main
  status,        \* how the current run ended: exit code, or killed
  opts,          \* manifest version and command-line flags of the current run
  storeAtStart,  \* the store value when the current run started
  hashCache,     \* the cache as loaded by the current run
  allFiles,      \* the candidate files collected by the current run
  idx,           \* index of the next file of allFiles
  newHashCache,  \* the descriptor map the run assembles
  failed,        \* the failures the run has reported
  counts,        \* skipped / computed / errors counters
  touched,       \* URLs the run has handled so far
  downloads,     \* URLs the run has issued a file download for
  kvLog,         \* the store accesses of the run, in order
  localFile,     \* the descriptor map written to the local JSON file
  tasks,         \* the processProduct calls in flight, one per target product
  results,       \* the PackageHash list of the hash-only script (URLs)
  cacheUpdated,  \* the flag of the same name of the hash-only script
  faults,        \* environment faults injected into the current run
  prev,          \* what the previous run produced, when it succeeded and saved
  printed,       \* the numbers of the summary the current run has printed
  manifest,      \* the manifest (version.json) handed to a manifest loader
  loader,        \* the manifest loader under consideration
  loadState,     \* how far the load of manifest has come
  candidates,    \* the files enumerated from the loaded manifest
  built,         \* the URLs handed to the descriptor builder
  entries,       \* the versions of the cache entries of one package, in key order
  pos,           \* index of the next entry generatePackagesFile looks at
  packageMap,    \* the version generatePackagesFile holds for the package
  compared,      \* the versions that were handed to compareVersions
  rendered,      \* the Version fields of the generated Packages text
  generator,     \* the script whose generateReleaseFile writes the Release file
  releaseDate,   \* the Date field of the generated Release file
  worker,        \* the version of the Cloudflare worker that serves /apt/
  upstream,      \* the vendor download a Packages stanza is rendered for
  kvMapping,     \* whether the key apt-url-mapping is present in the worker's KV
  filename,      \* the Filename field of the rendered stanza
  response,      \* the worker's response to the request made for the package
  call,          \* the descriptor builder that is called, and the file it is called with
  promises,      \* the size, buffer, hash and deb computations of the call
  gets,          \* the number of GET requests issued for the file
  disk,          \* what the call has created in the temporary directory and not removed
  outcome,       \* what the call has delivered to its caller
  resolved,      \* the parts the computations of the call returned, and the descriptor made of them
  runs,          \* two runs of the workflow script that overlap in time
  meta           \* the run of the script that generates the APT metadata

\* the variables of a batch run
runVars == << script, pkgText, store, runNo, phase, status, opts, storeAtStart,
              hashCache, allFiles, idx, newHashCache, failed, counts, touched,
              downloads, kvLog, localFile, tasks, results, cacheUpdated, faults, prev,
              printed >>

\* the variables of a manifest load taken by itself
loadVars == << manifest, loader, loadState, candidates, built >>

\* the variables of one call of generatePackagesFile
renderVars == << entries, pos, packageMap, compared, rendered, generator, releaseDate >>

\* the variables of the serving of one package
serveVars == << worker, upstream, kvMapping, filename, response >>

\* the variables of one call of a descriptor builder
callVars == << call, promises, gets, disk, outcome, resolved >>

vars == << runVars, loadVars, renderVars, serveVars, callVars, runs, meta >>

Scripts == {"gh", "gh_old", "dev", "legacy"}

\* a lookup that lets the entries of earlier runs expire
Lookup_Expiring(cache, url) ==
  IF cache.isNull THEN {}
  ELSE {cache.map[u] : u \in {v \in {url} \cap DOMAIN cache.map :
                                cache.map[v].descriptor.lastVerified >= runNo}}

\* hashCache?.[url]
Lookup(cache, url) ==
  IF cache.isNull THEN {} ELSE {cache.map[u] : u \in {url} \cap DOMAIN cache.map}

NoTasks == [p \in {} |-> 0]

\* a processProduct call that has not fetched its manifest yet
NewTask == [stage |-> "fetch", files |-> << >>, i |-> 1, result |-> EmptyMap]

Range(seq) == {seq[i] : i \in DOMAIN seq}

NoLocalFile == [written |-> FALSE, map |-> EmptyMap]

ZeroCounts == [skipped |-> 0, computed |-> 0, errors |-> 0]

NoOpts == [manifest |-> 0, useCache |-> FALSE, shouldUpload |-> FALSE, targets |-> << >>]

NoRun == [saved |-> FALSE, opts |-> NoOpts, result |-> EmptyMap]

\* the number of faults among the answers the environment gives for one file
FaultsOf(head, get, extractOk) ==
  (IF head = "fail" THEN 1 ELSE 0) + (IF get # "good" THEN 1 ELSE 0)
  + (IF extractOk THEN 0 ELSE 1)

\* the option sets a run of each script can be started with
RunOptions(s) ==
  IF s = "dev"
    THEN [manifest : ManifestVersions, useCache : BOOLEAN, shouldUpload : BOOLEAN,
          targets : {<< "mail" >>, PROTON_PRODUCTS}]
    ELSE [manifest : ManifestVersions, useCache : {TRUE}, shouldUpload : {TRUE},
          targets : {PROTON_PRODUCTS}]

\* no manifest load is looked at by itself
NoLoad ==
  /\ manifest = [Releases |-> << >>]
  /\ loader = "none"
  /\ loadState = "none"
  /\ candidates = << >>
  /\ built = {}

\* no Packages text is generated
NoRender ==
  /\ entries = << >>
  /\ pos = 1
  /\ packageMap = << >>
  /\ compared = {}
  /\ rendered = << >>
  /\ generator = "none"
  /\ releaseDate = << >>

\* a text is its segments between "/" and its query string ("" for none)
Text(segments, query) == [segments |-> segments, query |-> query]

NoText == Text(<< >>, "")

NoResponse == [request |-> NoText, status |-> 0, location |-> NoText]

\* no package is served
NoServe ==
  /\ worker = "none"
  /\ upstream = [product |-> "none", version |-> "none", url |-> NoText]
  /\ kvMapping = FALSE
  /\ filename = NoText
  /\ response = NoResponse

\* a computation that has not started; a pending one has state "pending"
Idle == [state |-> "idle", status |-> 0, body |-> "none", error |-> "none"]

Pending == [kind |-> "pending", error |-> "none", status |-> 0]

\* nothing has been returned yet
NoResolved == [stdout |-> << >>, size |-> EmptyMap, hash |-> EmptyMap, deb |-> EmptyMap,
            descriptor |-> EmptyMap]

\* no overlapping runs are looked at
NoOverlap == runs = << >>

\* no metadata is generated
NoMeta == meta = << >>

\* no descriptor builder is called
NoCall ==
  /\ call = [builder |-> "none", file |-> File("", "", << >>)]
  /\ promises = [size |-> Idle, buffer |-> Idle, hash |-> Idle, deb |-> Idle]
  /\ gets = 0
  /\ disk = {}
  /\ outcome = Pending
  /\ resolved = NoResolved

\* the numbers a run prints when it ends: each is the set holding the
\* number printed, empty when the script prints no such line; lines holds
\* the messages about the local file, the upload and the end of the run
NoSummary == [total |-> {}, reused |-> {}, computed |-> {}, failed |-> {}, lines |-> {}]

\* console.log / console.error of further lines after what was printed
Say(summary, messages) == [summary EXCEPT !.lines = printed.lines \cup messages]

\* main, step 5: Total files, Cached (skipped), Newly computed, Errors
ProcessingSummary(files, c) ==
  [total |-> {Len(files)}, reused |-> {c.skipped}, computed |-> {c.computed},
   failed |-> {c.errors}, lines |-> {}]

\* main of calculate-descriptors: Total packages, and Total failed when a
\* file failed
DevSummary(combined, failedFiles) ==
  [total |-> {Cardinality(DOMAIN combined)}, reused |-> {}, computed |-> {},
   failed |-> IF failedFiles # << >> THEN {Len(failedFiles)} ELSE {}, lines |-> {}]

\* main of download-and-hash-all: Total packages
LegacySummary(res) ==
  [total |-> {Len(res)}, reused |-> {}, computed |-> {}, failed |-> {}, lines |-> {}]

Init ==
  /\ script \in Scripts
  \* the hash-only script does not read the control stanza
  /\ pkgText \in IF script = "legacy" THEN {"plain"} ELSE TextKinds
  /\ store = NoValue
  /\ runNo = 0
  /\ phase = "idle"
  /\ status = "none"
  /\ opts = CHOOSE o \in RunOptions(script) : TRUE
  /\ storeAtStart = NoValue
  /\ hashCache = NullCache
  /\ allFiles = << >>
  /\ idx = 1
  /\ newHashCache = EmptyMap
  /\ failed = << >>
  /\ counts = ZeroCounts
  /\ touched = {}
  /\ downloads = {}
  /\ kvLog = << >>
  /\ localFile = NoLocalFile
  /\ tasks = NoTasks
  /\ results = << >>
  /\ cacheUpdated = FALSE
  /\ faults = 0
  /\ prev = NoRun
  /\ printed = NoSummary
  /\ NoLoad
  /\ NoRender
  /\ NoServe
  /\ NoCall
  /\ NoOverlap
  /\ NoMeta

KvPutSucceeded == \E i \in DOMAIN kvLog : kvLog[i].op = "put" /\ kvLog[i].ok

KvGetSucceeded == \E i \in DOMAIN kvLog : kvLog[i].op = "get" /\ kvLog[i].ok

\* a new invocation of the script
StartRun ==
  /\ phase \in {"idle", "done"}
  /\ runNo < MaxRuns
  /\ runNo' = runNo + 1
  /\ opts' \in RunOptions(script)
  /\ prev' = IF status = "exit0" /\ KvPutSucceeded
               THEN [saved |-> TRUE, opts |-> opts, result |-> newHashCache]
               ELSE NoRun
  /\ phase' = "load"
  /\ status' = "running"
  /\ storeAtStart' = store
  /\ hashCache' = NullCache
  /\ allFiles' = << >>
  /\ idx' = 1
  /\ newHashCache' = EmptyMap
  /\ failed' = << >>
  /\ counts' = ZeroCounts
  /\ touched' = {}
  /\ downloads' = {}
  /\ kvLog' = << >>
  /\ localFile' = NoLocalFile
  /\ tasks' = NoTasks
  /\ results' = << >>
  /\ cacheUpdated' = FALSE
  /\ printed' = NoSummary
  /\ faults' = 0
  /\ UNCHANGED << script, pkgText, store, loadVars, renderVars, serveVars, callVars, runs, meta >>

KvEvent(op, ok) == [op |-> op, ok |-> ok, handled |-> Cardinality(touched)]

\* step 2 of main: downloadDescriptorsCache
LoadCache ==
  /\ phase = "load"
  /\ script \in {"gh", "gh_old"}
  /\ \E read \in {"ok", "error"} :
       /\ hashCache' = DownloadDescriptorsCache(store, read)
       /\ kvLog' = Append(kvLog, KvEvent("get", read = "ok"))
  /\ phase' = IF hashCache'.threw THEN "done" ELSE "collect"
  /\ status' = IF hashCache'.threw THEN "exit1" ELSE status
  /\ UNCHANGED << script, pkgText, store, runNo, opts, storeAtStart, allFiles,
                  idx, newHashCache, failed, counts, touched, downloads, localFile, tasks, faults, results,
                  cacheUpdated, prev, printed, loadVars, renderVars, serveVars, callVars, runs, meta >>

\* step 3 of main: read the manifest files of the cache directory; a missing
\* file ends the run with exit code 1
CollectFiles ==
  /\ phase = "collect"
  /\ script \in {"gh", "gh_old"}
  /\ \E filesExist \in BOOLEAN :
       IF filesExist
         THEN /\ allFiles' = CollectAllFiles(opts.manifest)
              /\ phase' = "process"
              /\ status' = status
         ELSE /\ allFiles' = allFiles
              /\ phase' = "done"
              /\ status' = "exit1"
  /\ UNCHANGED << script, pkgText, store, runNo, opts, storeAtStart, hashCache,
                  idx, newHashCache, failed, counts, touched, downloads, kvLog,
                  localFile, tasks, faults, results,
                  cacheUpdated, prev, printed, loadVars, renderVars, serveVars, callVars, runs, meta >>

\* one iteration of the file loop of download-and-descriptors-all.ts, as far
\* as the variables of main are concerned
FileLoopGh ==
  /\ phase = "process"
  /\ script = "gh"
  /\ idx <= Len(allFiles)
  /\ LET file == allFiles[idx].file
         cached == Lookup(hashCache, file.Url)
     IN IF cached # {}
          THEN /\ newHashCache' = Put(newHashCache, file.Url, CHOOSE c \in cached : TRUE)
               /\ counts' = [counts EXCEPT !.skipped = @ + 1]
               /\ UNCHANGED << failed, downloads, faults >>
          ELSE \E head \in {"ok", "fail"}, get \in {"fail"} \cup Contents, extractOk \in BOOLEAN :
                 LET errs == DescriptorErrors(file, head, get, extractOk)
                 IN /\ faults + FaultsOf(head, get, extractOk) <= MaxFaults
                    /\ faults' = faults + FaultsOf(head, get, extractOk)
                    /\ downloads' = downloads \cup {file.Url}
                    /\ IF errs = {}
                         THEN /\ newHashCache' =
                                   Put(newHashCache, file.Url,
                                       Wrapped(DescriptorFromFile(file, get, pkgText)))
                              /\ counts' = [counts EXCEPT !.computed = @ + 1]
                              /\ failed' = failed
                         ELSE \E e \in errs :
                                /\ failed' = Append(failed, [url |-> file.Url, error |-> e])
                                /\ counts' = [counts EXCEPT !.errors = @ + 1]
                                /\ newHashCache' = newHashCache
  /\ touched' = touched \cup {allFiles[idx].file.Url}
  /\ idx' = idx + 1
  /\ UNCHANGED << script, pkgText, runNo, phase, status, opts, storeAtStart,
                  hashCache, allFiles, localFile, tasks, results,
                  cacheUpdated, prev, printed, loadVars, renderVars, serveVars, callVars, runs, meta >>

\* an iteration that writes the map assembled so far back to the store
ProcessFileGh_Incremental ==
  /\ FileLoopGh
  /\ store' = SetKvValue(newHashCache')
  /\ kvLog' = Append(kvLog, KvEvent("put", TRUE))

\* the file loop leaves the store alone
ProcessFileGh ==
  /\ FileLoopGh
  /\ UNCHANGED << store, kvLog >>

\* one iteration of the file loop of the previous workflow script, as far as
\* the variables of main are concerned
FileLoopGhOld ==
  /\ phase = "process"
  /\ script = "gh_old"
  /\ idx <= Len(allFiles)
  /\ LET file == allFiles[idx].file
         cached == Lookup(hashCache, file.Url)
     IN IF cached # {}
          THEN /\ newHashCache' = Put(newHashCache, file.Url, CHOOSE c \in cached : TRUE)
               /\ counts' = [counts EXCEPT !.skipped = @ + 1]
               /\ UNCHANGED << failed, downloads, faults >>
          ELSE \E get \in {"fail"} \cup Contents, extractOk \in BOOLEAN :
                 /\ faults + FaultsOf("ok", get, extractOk) <= MaxFaults
                 /\ faults' = faults + FaultsOf("ok", get, extractOk)
                 /\ downloads' = downloads \cup {file.Url}
                 /\ IF get = "fail"
                      THEN /\ failed' = Append(failed,
                                  [url |-> file.Url, error |-> Failure("download", NoDigest, NoDigest)])
                           /\ counts' = [counts EXCEPT !.errors = @ + 1]
                           /\ newHashCache' = newHashCache
                    ELSE IF Sha512Hex(get) # file.Sha512CheckSum
                      THEN /\ failed' = Append(failed,
                                  [url |-> file.Url,
                                   error |-> Failure("mismatch", file.Sha512CheckSum, Sha512Hex(get))])
                           /\ counts' = [counts EXCEPT !.errors = @ + 1]
                           /\ newHashCache' = newHashCache
                    ELSE IF ~extractOk
                      THEN /\ failed' = Append(failed,
                                  [url |-> file.Url, error |-> Failure("extract", NoDigest, NoDigest)])
                           /\ counts' = [counts EXCEPT !.errors = @ + 1]
                           /\ newHashCache' = newHashCache
                    ELSE /\ newHashCache' =
                              Put(newHashCache, file.Url,
                                  Bare([url |-> file.Url, filename |-> ProxyPath(file.Url),
                                        sha512 |-> Sha512Hex(get),
                                        description |-> DescriptionOf(file.Url, pkgText),
                                        lastVerified |-> runNo]))
                         /\ counts' = [counts EXCEPT !.computed = @ + 1]
                         /\ failed' = failed
  /\ touched' = touched \cup {allFiles[idx].file.Url}
  /\ idx' = idx + 1
  /\ UNCHANGED << script, pkgText, runNo, phase, status, opts, storeAtStart,
                  hashCache, allFiles, localFile, tasks, results,
                  cacheUpdated, prev, printed, loadVars, renderVars, serveVars, callVars, runs, meta >>

\* an iteration that reads the store again before it handles its file
ProcessFileGhOld_Rereads ==
  /\ FileLoopGhOld
  /\ store' = store
  /\ kvLog' = Append(kvLog, KvEvent("get", TRUE))

\* the file loop leaves the store alone
ProcessFileGhOld ==
  /\ FileLoopGhOld
  /\ UNCHANGED << store, kvLog >>

\* a main that goes to the upload without writing package-descriptors.json
Summary_UploadFirst ==
  /\ phase = "process"
  /\ script \in {"gh", "gh_old"}
  /\ idx > Len(allFiles)
  /\ IF counts.errors > 0
       THEN /\ phase' = "done"
            /\ status' = "exit1"
            /\ localFile' = localFile
            /\ printed' = Say(ProcessingSummary(allFiles, counts), {"aborting"})
       ELSE /\ phase' = "save"
            /\ status' = status
            /\ localFile' = localFile
            /\ printed' = Say(ProcessingSummary(allFiles, counts), {})
  /\ UNCHANGED << script, pkgText, store, runNo, opts, storeAtStart, hashCache,
                  allFiles, idx, newHashCache, failed, counts, touched, downloads,
                  kvLog, tasks, faults, results,
                  cacheUpdated, prev, loadVars, renderVars, serveVars, callVars, runs, meta >>

\* steps 5 and 6 of main: the summary, exit code 1 when a file failed,
\* otherwise package-descriptors.json is written
Summary ==
  /\ phase = "process"
  /\ script \in {"gh", "gh_old"}
  /\ idx > Len(allFiles)
  /\ IF counts.errors > 0
       THEN /\ phase' = "done"
            /\ status' = "exit1"
            /\ localFile' = localFile
            /\ printed' = Say(ProcessingSummary(allFiles, counts), {"aborting"})
       ELSE /\ phase' = "save"
            /\ status' = status
            /\ localFile' = [written |-> TRUE, map |-> newHashCache]
            /\ printed' = Say(ProcessingSummary(allFiles, counts), {"saved locally"})
  /\ UNCHANGED << script, pkgText, store, runNo, opts, storeAtStart, hashCache,
                  allFiles, idx, newHashCache, failed, counts, touched, downloads,
                  kvLog, tasks, faults, results,
                  cacheUpdated, prev, loadVars, renderVars, serveVars, callVars, runs, meta >>

\* step 7 of main: uploadDescriptorsCache; its error reaches main().catch
SaveCache ==
  /\ phase = "save"
  /\ script \in {"gh", "gh_old"}
  /\ \E write \in {"ok", "error"} :
       /\ kvLog' = Append(kvLog, KvEvent("put", write = "ok"))
       /\ IF write = "ok"
            THEN /\ store' = SetKvValue(newHashCache)
                 /\ status' = "exit0"
                 /\ printed' = Say(printed, {"uploaded", "completed"})
            ELSE /\ store' = store
                 /\ status' = "exit1"
                 /\ printed' = Say(printed, {"upload failed", "run failed"})
  /\ phase' = "done"
  /\ UNCHANGED << script, pkgText, runNo, opts, storeAtStart, hashCache, allFiles,
                  idx, newHashCache, failed, counts, touched, downloads, localFile, tasks, faults, results,
                  cacheUpdated, prev, loadVars, renderVars, serveVars, callVars, runs, meta >>

\* ------------------------------------------------------------------------
\* src/dev/calculate-descriptors.ts
\* ------------------------------------------------------------------------

\* main with --use-cache: existingHashes = downloadDescriptorsCache() ?? {}
DevLoadCache ==
  /\ phase = "load"
  /\ script = "dev"
  /\ opts.useCache
  /\ \E read \in {"ok", "error"} :
       /\ hashCache' = OrEmpty(DownloadDescriptorsCache(store, read))
       /\ kvLog' = Append(kvLog, KvEvent("get", read = "ok"))
  /\ tasks' = [p \in Range(opts.targets) |-> NewTask]
  /\ phase' = IF hashCache'.threw THEN "done" ELSE "process"
  /\ status' = IF hashCache'.threw THEN "exit1" ELSE status
  /\ UNCHANGED << script, pkgText, store, runNo, opts, storeAtStart, allFiles,
                  idx, newHashCache, failed, counts, touched, downloads, localFile,
                  faults, results,
                  cacheUpdated, prev, printed, loadVars, renderVars, serveVars, callVars, runs, meta >>

\* a force mode that still hands the stored map to processProduct
DevSkipCache_UsesStore ==
  /\ phase = "load"
  /\ script = "dev"
  /\ ~opts.useCache
  /\ hashCache' = OrEmpty(DownloadDescriptorsCache(store, "ok"))
  /\ tasks' = [p \in Range(opts.targets) |-> NewTask]
  /\ phase' = "process"
  /\ UNCHANGED << script, pkgText, store, runNo, status, opts, storeAtStart, allFiles,
                  idx, newHashCache, failed, counts, touched, downloads, kvLog,
                  localFile, faults, results,
                  cacheUpdated, prev, printed, loadVars, renderVars, serveVars, callVars, runs, meta >>

\* main without --use-cache: existingHashes = {}, the store is not read
DevSkipCache ==
  /\ phase = "load"
  /\ script = "dev"
  /\ ~opts.useCache
  /\ hashCache' = OrEmpty(NullCache)
  /\ tasks' = [p \in Range(opts.targets) |-> NewTask]
  /\ phase' = "process"
  /\ UNCHANGED << script, pkgText, store, runNo, status, opts, storeAtStart, allFiles,
                  idx, newHashCache, failed, counts, touched, downloads, kvLog,
                  localFile, faults, results,
                  cacheUpdated, prev, printed, loadVars, renderVars, serveVars, callVars, runs, meta >>

\* the stage of a task once it stands before file i
StageAt(files, i) == IF i > Len(files) THEN "done" ELSE "files"

\* processProduct: fetchProtonProductAPI; a failed fetch rejects the
\* Promise.all of main, whose catch exits with code 1
DevFetchManifest(p) ==
  /\ phase = "process"
  /\ script = "dev"
  /\ p \in DOMAIN tasks
  /\ tasks[p].stage = "fetch"
  /\ \E fetchOk \in BOOLEAN :
       IF fetchOk
         THEN /\ tasks' = [tasks EXCEPT ![p] =
                             [@ EXCEPT !.files = ProductFiles(p, opts.manifest),
                                       !.stage = StageAt(ProductFiles(p, opts.manifest), 1)]]
              /\ UNCHANGED << phase, status, faults >>
         ELSE /\ faults < MaxFaults
              /\ faults' = faults + 1
              /\ phase' = "done"
              /\ status' = "exit1"
              /\ tasks' = tasks
  /\ UNCHANGED << script, pkgText, store, runNo, opts, storeAtStart, hashCache,
                  allFiles, idx, newHashCache, failed, counts, touched, downloads,
                  kvLog, localFile, results,
                  cacheUpdated, prev, printed, loadVars, renderVars, serveVars, callVars, runs, meta >>

\* processProduct: one iteration of the file loop; a rejected
\* DescriptorFromFile is not caught before the catch of main
DevProcessFile(p) ==
  /\ phase = "process"
  /\ script = "dev"
  /\ p \in DOMAIN tasks
  /\ tasks[p].stage = "files"
  /\ LET t == tasks[p]
         file == t.files[t.i].file
         cached == Lookup(hashCache, file.Url)
         advance(res) == [tasks EXCEPT ![p] =
                            [@ EXCEPT !.result = res, !.i = t.i + 1,
                                      !.stage = StageAt(t.files, t.i + 1)]]
     IN /\ touched' = touched \cup {file.Url}
        /\ IF cached # {}
             THEN /\ tasks' = advance(Put(t.result, file.Url, CHOOSE c \in cached : TRUE))
                  /\ UNCHANGED << phase, status, failed, downloads, faults >>
             ELSE \E head \in {"ok", "fail"}, get \in {"fail"} \cup Contents,
                     extractOk \in BOOLEAN :
                    LET errs == DescriptorErrors(file, head, get, extractOk)
                        result == DescriptorFromFile(file, get, pkgText)
                    IN /\ faults + FaultsOf(head, get, extractOk) <= MaxFaults
                       /\ faults' = faults + FaultsOf(head, get, extractOk)
                       /\ downloads' = downloads \cup {file.Url}
                       /\ IF errs # {}
                            THEN /\ phase' = "done"
                                 /\ status' = "exit1"
                                 /\ UNCHANGED << tasks, failed >>
                            ELSE IF result.success
                              THEN /\ tasks' = advance(Put(t.result, result.descriptor.url,
                                                           Bare(result.descriptor)))
                                   /\ UNCHANGED << phase, status, failed >>
                              ELSE /\ tasks' = advance(t.result)
                                   /\ failed' = Append(failed, result)
                                   /\ UNCHANGED << phase, status >>
  /\ UNCHANGED << script, pkgText, store, runNo, opts, storeAtStart, hashCache,
                  allFiles, idx, newHashCache, counts, kvLog, localFile, results,
                  cacheUpdated, prev, printed, loadVars, renderVars, serveVars, callVars, runs, meta >>

\* a combination that keeps only the map of the first product
Combine_HeadOnly(products, ts, acc) ==
  IF products = << >> THEN acc ELSE ts[Head(products)].result

\* the maps of the tasks merged in the order of the target products
RECURSIVE Combine(_, _, _)
Combine(products, ts, acc) ==
  IF products = << >> THEN acc
  ELSE Combine(Tail(products), ts,
               [u \in (DOMAIN acc) \cup (DOMAIN ts[Head(products)].result) |->
                  IF u \in DOMAIN ts[Head(products)].result
                    THEN ts[Head(products)].result[u] ELSE acc[u]])

\* a main that uploads whatever the flags say
DevCombine_AlwaysUploads ==
  /\ phase = "process"
  /\ script = "dev"
  /\ \A p \in DOMAIN tasks : tasks[p].stage = "done"
  /\ newHashCache' = Combine(opts.targets, tasks, EmptyMap)
  /\ localFile' = [written |-> TRUE, map |-> newHashCache']
  /\ phase' = "save"
  /\ status' = status
  /\ printed' = Say(printed, {"saved locally"})
  /\ UNCHANGED << script, pkgText, store, runNo, opts, storeAtStart, hashCache,
                  allFiles, idx, failed, counts, touched, downloads, kvLog, tasks,
                  faults, results,
                  cacheUpdated, prev, loadVars, renderVars, serveVars, callVars, runs, meta >>

\* main after Promise.all: combine, write dev-package-descriptors.json, and
\* end with exit code 0 when --no-upload is given
DevCombine ==
  /\ phase = "process"
  /\ script = "dev"
  /\ \A p \in DOMAIN tasks : tasks[p].stage = "done"
  /\ newHashCache' = Combine(opts.targets, tasks, EmptyMap)
  /\ localFile' = [written |-> TRUE, map |-> newHashCache']
  /\ IF opts.shouldUpload
       THEN /\ phase' = "save"
            /\ status' = status
            /\ printed' = Say(printed, {"saved locally"})
       ELSE /\ phase' = "done"
            /\ status' = "exit0"
            /\ printed' = Say(DevSummary(newHashCache', failed), {"saved locally", "completed"})
  /\ UNCHANGED << script, pkgText, store, runNo, opts, storeAtStart, hashCache,
                  allFiles, idx, failed, counts, touched, downloads, kvLog, tasks,
                  faults, results,
                  cacheUpdated, prev, loadVars, renderVars, serveVars, callVars, runs, meta >>

\* uploadToCache: an upload error reaches the catch of main
DevUpload ==
  /\ phase = "save"
  /\ script = "dev"
  /\ \E write \in {"ok", "error"} :
       /\ kvLog' = Append(kvLog, KvEvent("put", write = "ok"))
       /\ IF write = "ok"
            THEN /\ store' = SetKvValue(newHashCache)
                 /\ status' = "exit0"
                 /\ printed' = Say(DevSummary(newHashCache, failed), {"uploaded", "completed"})
            ELSE /\ store' = store
                 /\ status' = "exit1"
                 /\ printed' = Say(printed, {"upload failed", "run failed"})
  /\ phase' = "done"
  /\ UNCHANGED << script, pkgText, runNo, opts, storeAtStart, hashCache, allFiles,
                  idx, newHashCache, failed, counts, touched, downloads, localFile,
                  tasks, faults, results,
                  cacheUpdated, prev, loadVars, renderVars, serveVars, callVars, runs, meta >>

\* ------------------------------------------------------------------------
\* The hash-only script (download-and-hash-all)
\* ------------------------------------------------------------------------

\* getHashCache: the stored map, or {} when the key is missing, the read
\* fails or the value does not parse
LegacyLoadCache ==
  /\ phase = "load"
  /\ script = "legacy"
  /\ \E read \in {"ok", "error"} :
       /\ hashCache' = GetHashCache(store, read)
       /\ kvLog' = Append(kvLog, KvEvent("get", read = "ok"))
  /\ newHashCache' = hashCache'.map
  /\ tasks' = [p \in Range(PROTON_PRODUCTS) |-> NewTask]
  /\ phase' = "process"
  /\ UNCHANGED << script, pkgText, store, runNo, status, opts, storeAtStart, allFiles,
                  idx, failed, counts, touched, downloads, localFile, results,
                  cacheUpdated, faults, prev, printed, loadVars, renderVars, serveVars, callVars, runs, meta >>

\* the products are processed one after the other
LegacyTurn(p) ==
  /\ p \in DOMAIN tasks
  /\ tasks[p].stage # "done"
  /\ \A i \in DOMAIN PROTON_PRODUCTS :
       PROTON_PRODUCTS[i] = p =>
         \A j \in 1..(i - 1) : tasks[PROTON_PRODUCTS[j]].stage = "done"

\* processAllProducts: fetchAllReleases; its error is caught per product
LegacyFetchReleases(p) ==
  /\ phase = "process"
  /\ script = "legacy"
  /\ LegacyTurn(p)
  /\ tasks[p].stage = "fetch"
  /\ \E fetchOk \in BOOLEAN :
       IF fetchOk
         THEN /\ tasks' = [tasks EXCEPT ![p] =
                 [@ EXCEPT !.files = DebFiles(p, ManifestOf(p, opts.manifest).Releases),
                           !.stage = StageAt(DebFiles(p, ManifestOf(p, opts.manifest).Releases), 1)]]
              /\ faults' = faults
         ELSE /\ faults < MaxFaults
              /\ faults' = faults + 1
              /\ tasks' = [tasks EXCEPT ![p] = [@ EXCEPT !.stage = "done"]]
  /\ UNCHANGED << script, pkgText, store, runNo, phase, status, opts, storeAtStart,
                  hashCache, allFiles, idx, newHashCache, failed, counts, touched,
                  downloads, kvLog, localFile, results, cacheUpdated, prev, printed, loadVars, renderVars, serveVars, callVars, runs, meta >>

\* processAllProducts: one release; a failed download is caught by the try
\* around the product, which gives up the remaining releases of the product
LegacyProcessRelease(p) ==
  /\ phase = "process"
  /\ script = "legacy"
  /\ LegacyTurn(p)
  /\ tasks[p].stage = "files"
  /\ LET t == tasks[p]
         url == t.files[t.i].file.Url
         advance == [tasks EXCEPT ![p] =
                       [@ EXCEPT !.i = t.i + 1, !.stage = StageAt(t.files, t.i + 1)]]
     IN /\ touched' = touched \cup {url}
        /\ IF url \in DOMAIN newHashCache
             THEN /\ results' = Append(results, url)
                  /\ tasks' = advance
                  /\ UNCHANGED << newHashCache, cacheUpdated, downloads, faults, failed >>
             ELSE \E get \in {"fail"} \cup Contents :
                    /\ faults + FaultsOf("ok", get, TRUE) <= MaxFaults
                    /\ faults' = faults + FaultsOf("ok", get, TRUE)
                    /\ downloads' = downloads \cup {url}
                    /\ IF get = "fail"
                         THEN /\ tasks' = [tasks EXCEPT ![p] = [@ EXCEPT !.stage = "done"]]
                              /\ failed' = Append(failed,
                                     [url |-> url, error |-> Failure("download", NoDigest, NoDigest)])
                              /\ UNCHANGED << newHashCache, cacheUpdated, results >>
                         ELSE /\ newHashCache' =
                                   Put(newHashCache, url,
                                       Bare([url |-> url, sha512 |-> Sha512Hex(get),
                                             description |-> "none", lastVerified |-> runNo]))
                              /\ cacheUpdated' = TRUE
                              /\ results' = Append(results, url)
                              /\ tasks' = advance
                              /\ failed' = failed
  /\ UNCHANGED << script, pkgText, store, runNo, phase, status, opts, storeAtStart,
                  hashCache, allFiles, idx, counts, kvLog, localFile, prev, printed, loadVars, renderVars, serveVars, callVars, runs, meta >>

\* the end of processAllProducts: saveHashCache when the cache was updated;
\* saveHashCache logs a write error and returns
LegacySaveCache ==
  /\ phase = "process"
  /\ script = "legacy"
  /\ \A p \in DOMAIN tasks : tasks[p].stage = "done"
  /\ IF cacheUpdated
       THEN \E write \in {"ok", "error"} :
              /\ kvLog' = Append(kvLog, KvEvent("put", write = "ok"))
              /\ store' = IF write = "ok" THEN SetKvValue(newHashCache) ELSE store
              /\ printed' = Say(printed, IF write = "ok" THEN {"uploaded"}
                                                        ELSE {"upload failed"})
       ELSE UNCHANGED << kvLog, store, printed >>
  /\ phase' = "summary"
  /\ UNCHANGED << script, pkgText, runNo, status, opts, storeAtStart, hashCache,
                  allFiles, idx, newHashCache, failed, counts, touched, downloads,
                  localFile, tasks, results, cacheUpdated, faults, prev, loadVars, renderVars, serveVars, callVars, runs, meta >>

\* main: no result is an error, otherwise package-hashes.json is written
LegacyMain ==
  /\ phase = "summary"
  /\ script = "legacy"
  /\ IF results = << >>
       THEN /\ status' = "exit1"
            /\ localFile' = localFile
            /\ printed' = Say(printed, {"run failed"})
       ELSE /\ status' = "exit0"
            /\ localFile' = [written |-> TRUE,
                             map |-> [u \in Range(results) |-> newHashCache[u]]]
            /\ printed' = Say(LegacySummary(results), {"saved locally", "completed"})
  /\ phase' = "done"
  /\ UNCHANGED << script, pkgText, store, runNo, opts, storeAtStart, hashCache,
                  allFiles, idx, newHashCache, failed, counts, touched, downloads,
                  kvLog, tasks, results, cacheUpdated, faults, prev, loadVars, renderVars, serveVars, callVars, runs, meta >>

\* the process is killed before it ends by itself
Crash ==
  /\ phase \in {"load", "collect", "process", "summary", "save"}
  /\ phase' = "done"
  /\ status' = "killed"
  /\ UNCHANGED << script, pkgText, store, runNo, opts, storeAtStart, hashCache,
                  allFiles, idx, newHashCache, failed, counts, touched, downloads,
                  kvLog, localFile, tasks, faults, results,
                  cacheUpdated, prev, printed, loadVars, renderVars, serveVars, callVars, runs, meta >>

Next ==
  \/ StartRun
  \/ LoadCache
  \/ CollectFiles
  \/ ProcessFileGh
  \/ ProcessFileGhOld
  \/ Summary
  \/ SaveCache
  \/ DevLoadCache
  \/ DevSkipCache
  \/ \E p \in Range(PROTON_PRODUCTS) : DevFetchManifest(p)
  \/ \E p \in Range(PROTON_PRODUCTS) : DevProcessFile(p)
  \/ DevCombine
  \/ DevUpload
  \/ LegacyLoadCache
  \/ \E p \in Range(PROTON_PRODUCTS) : LegacyFetchReleases(p)
  \/ \E p \in Range(PROTON_PRODUCTS) : LegacyProcessRelease(p)
  \/ LegacySaveCache
  \/ LegacyMain
  \/ Crash

Spec == Init /\ [][Next]_vars

\* ------------------------------------------------------------------------
\* The manifest load taken by itself: one manifest, one loader, the
\* enumeration of its candidate files and their hand-over to the builder
\* ------------------------------------------------------------------------

\* digests the schema does not admit: too short, and not hexadecimal
ShortDigest == [i \in 1..(HexLen - 1) |-> "a"]
NonHexDigest == [i \in 1..HexLen |-> "g"]

\* the file put into one position of the manifest under load
ProbeFiles ==
  { File(".deb", "mail/1.9.0.deb", Sha512Hex("good")),
    File(".deb", "mail/1.9.0.deb", UpperDigest),
    File(".DEB", "mail/1.9.0.deb", Sha512Hex("good")),
    File("", "mail/1.9.0.deb", Sha512Hex("good")),
    File(".rpm", "mail/1.9.0.deb", Sha512Hex("good")),
    File(".deb", "evil/app.deb", Sha512Hex("good")),
    File(".deb", "not a url", Sha512Hex("good")),
    File(".deb", "mail/1.9.0.deb", ShortDigest),
    File(".deb", "mail/1.9.0.deb", NonHexDigest),
    File(".deb", "mail/beta.deb", Sha512Hex("good")),
    File(".rpm", "mail/beta.deb", Sha512Hex("good")) }

\* two releases, the probe in the newest or in the older one
ProbeManifest(f, position) ==
  IF position = 1
    THEN [Releases |->
            << [Version |-> "1.9.1",
                File |-> << f, File(".rpm", "mail/1.9.1.rpm", Sha512Hex("good")) >>],
               [Version |-> "1.8.0",
                File |-> << File(".deb", "mail/1.8.0.deb", Sha512Hex("good")) >>] >>]
    ELSE [Releases |->
            << [Version |-> "1.9.1",
                File |-> << File(".deb", "mail/1.9.1.deb", Sha512Hex("good")),
                            File(".rpm", "mail/1.9.1.rpm", Sha512Hex("good")) >>],
               [Version |-> "1.9.0", File |-> << f >>] >>]

\* the manifests a loader is tried on
TestManifests ==
  {[Releases |-> << >>]} \cup {ProbeManifest(f, position) : f \in ProbeFiles, position \in {1, 2}}

\* "workflow": validate-proton-api.ts, then download-and-descriptors-all.ts
\* "dev":      fetchProtonProductAPI, then processProduct
\* "legacy":   fetchAllReleases, then processAllProducts
\* "latest":   fetchLatestVersion of check-proton-versions.ts
Loaders == {"workflow", "dev", "legacy", "latest"}

\* the load of m by a loader returns instead of throwing
LoadAccepts(l, m) ==
  CASE l = "workflow" -> WorkflowLoad(m)
    [] l = "dev"      -> FetchProtonProductAPI(m)
    [] l = "legacy"   -> FetchAllReleases(m)
    [] l = "latest"   -> FetchLatestVersion(m)

\* the files a loader's script enumerates from a loaded manifest
Enumeration(l, m) ==
  CASE l = "workflow" -> SelectSeq(FlatFiles("mail", m.Releases), IsCandidateGh)
    [] l = "dev"      -> SelectSeq(FlatFiles("mail", m.Releases), IsCandidateDev)
    [] l = "legacy"   -> DebFiles("mail", m.Releases)
    [] l = "latest"   -> << >>

\* no batch run is looked at
NoBatch ==
  /\ script = "none"
  /\ pkgText = "plain"
  /\ store = NoValue
  /\ runNo = 0
  /\ phase = "idle"
  /\ status = "none"
  /\ opts = NoOpts
  /\ storeAtStart = NoValue
  /\ hashCache = NullCache
  /\ allFiles = << >>
  /\ idx = 1
  /\ newHashCache = EmptyMap
  /\ failed = << >>
  /\ counts = ZeroCounts
  /\ touched = {}
  /\ downloads = {}
  /\ kvLog = << >>
  /\ localFile = NoLocalFile
  /\ tasks = NoTasks
  /\ results = << >>
  /\ cacheUpdated = FALSE
  /\ faults = 0
  /\ prev = NoRun
  /\ printed = NoSummary

LoadInit ==
  /\ manifest \in TestManifests
  /\ loader \in Loaders
  /\ loadState = "fetched"
  /\ candidates = << >>
  /\ built = {}
  /\ NoBatch
  /\ NoRender
  /\ NoServe
  /\ NoCall
  /\ NoOverlap
  /\ NoMeta

\* the loader validates the manifest: it returns it or throws
LoadManifest ==
  /\ loadState = "fetched"
  /\ loadState' = IF LoadAccepts(loader, manifest) THEN "accepted" ELSE "rejected"
  /\ UNCHANGED << manifest, loader, candidates, built, runVars, renderVars, serveVars, callVars, runs, meta >>

\* the script enumerates the candidate files of the loaded manifest
Enumerate ==
  /\ loadState = "accepted"
  /\ loader # "latest"
  /\ candidates' = Enumeration(loader, manifest)
  /\ loadState' = "enumerated"
  /\ UNCHANGED << manifest, loader, built, runVars, renderVars, serveVars, callVars, runs, meta >>

\* the script hands the next candidate file to the descriptor builder
BuildNext ==
  /\ loadState = "enumerated"
  /\ Cardinality(built) < Len(candidates)
  /\ built' = built \cup {candidates[Cardinality(built) + 1].file.Url}
  /\ UNCHANGED << manifest, loader, loadState, candidates, runVars, renderVars, serveVars, callVars, runs, meta >>

LoadNext ==
  \/ LoadManifest
  \/ Enumerate
  \/ BuildNext

LoadSpec == LoadInit /\ [][LoadNext]_vars

\* ------------------------------------------------------------------------
\* generatePackagesFile taken by itself: the latest-version reduction over
\* the cache entries of one package
\* ------------------------------------------------------------------------

\* number of cache entries of the package
MaxGroup == 3

\* Number(part) of a part of a split version string; nan marks NaN
NumberOf(part) ==
  CASE part = "0"  -> [nan |-> FALSE, val |-> 0]
    [] part = "1"  -> [nan |-> FALSE, val |-> 1]
    [] part = "2"  -> [nan |-> FALSE, val |-> 2]
    [] part = "8"  -> [nan |-> FALSE, val |-> 8]
    [] part = "9"  -> [nan |-> FALSE, val |-> 9]
    [] part = "10" -> [nan |-> FALSE, val |-> 10]
    [] part = "32" -> [nan |-> FALSE, val |-> 32]
    [] OTHER       -> [nan |-> TRUE, val |-> 0]

\* a part that is missing compares below every part that is there
PartOrZero_MissingLow(parts, i) ==
  IF i \in DOMAIN parts /\ ~NumberOf(parts[i]).nan THEN NumberOf(parts[i]).val ELSE 0 - 1

\* aParts[i] || 0: NaN, 0 and a missing part give 0
PartOrZero(parts, i) ==
  IF i \in DOMAIN parts /\ ~NumberOf(parts[i]).nan THEN NumberOf(parts[i]).val ELSE 0

Max(x, y) == IF x >= y THEN x ELSE y

\* the for loop of compareVersions from index i on
RECURSIVE CompareFrom(_, _, _)
CompareFrom(a, b, i) ==
  IF i > Max(Len(a), Len(b)) THEN 0
  ELSE IF PartOrZero(a, i) > PartOrZero(b, i) THEN 1
  ELSE IF PartOrZero(a, i) < PartOrZero(b, i) THEN 0 - 1
  ELSE CompareFrom(a, b, i + 1)

\* a comparison of the parts as strings: "10" sorts before "2" and "9"
CompareVersions_Textual(a, b) ==
  LET TextRank(part) ==
        CASE part = "0" -> 0 [] part = "1" -> 1 [] part = "10" -> 2
          [] part = "2" -> 3 [] part = "9" -> 4 [] OTHER -> 5
      RankAt(v, i) == IF i \in DOMAIN v THEN TextRank(v[i]) ELSE 0 - 1
      differing == {i \in 1..Max(Len(a), Len(b)) : RankAt(a, i) # RankAt(b, i)}
  IN IF differing = {} THEN 0
     ELSE LET k == CHOOSE i \in differing : \A j \in differing : i <= j
          IN IF RankAt(a, k) > RankAt(b, k) THEN 1 ELSE 0 - 1

\* compareVersions on the parts of a.split('.') and b.split('.')
CompareVersions(a, b) == CompareFrom(a, b, 1)

\* the version generatePackagesFile extracts from the URL of an entry:
\* the parts of the matched text, or "unknown" when no pattern matches
Unknown == << "unknown" >>
ExtractedVersions ==
  { << "1", "9", "1" >>, << "1", "10", "0" >>, << "1", "2", "9" >>, << "1", "9" >>,
    << "1", "10" >>, << "1", "10", "0-beta" >>, Unknown }

RenderInit ==
  /\ entries \in {e \in UNION {[1..n -> ExtractedVersions] : n \in 1..MaxGroup} :
                     \A i, j \in DOMAIN e : e[i] = e[j] => i = j}
  /\ pos = 1
  /\ packageMap = << >>
  /\ compared = {}
  /\ rendered = << >>
  /\ generator \in {"part_017", "update-apt", "lib"}
  /\ releaseDate = << >>
  /\ NoBatch
  /\ NoLoad
  /\ NoServe
  /\ NoCall
  /\ NoOverlap
  /\ NoMeta

\* one iteration of the loop over the entries: generatePackagesFile of
\* part_017 keeps the latest version of the package; the one of
\* update-apt/generate-metadata.ts and the one of lib/apt.ts append the
\* stanza of the entry to the text
RenderEntry ==
  /\ entries # << >>
  /\ pos <= Len(entries)
  /\ LET version == entries[pos]
     IN IF generator # "part_017"
          THEN /\ rendered' = Append(rendered, version)
               /\ UNCHANGED << packageMap, compared >>
          ELSE /\ rendered' = rendered
               /\ IF version = Unknown
                    THEN UNCHANGED << packageMap, compared >>
                    ELSE IF packageMap = << >>
                      THEN /\ packageMap' = << version >>
                           /\ compared' = compared
                      ELSE /\ compared' = compared \cup {version, packageMap[1]}
                           /\ packageMap' = IF CompareVersions(version, packageMap[1]) > 0
                                              THEN << version >> ELSE packageMap
  /\ pos' = pos + 1
  /\ UNCHANGED << entries, generator, releaseDate, runVars, loadVars, serveVars, callVars, runs, meta >>

\* part_017 writes the stanza of the package from the version that was
\* kept; the other two return the text they have
RenderPackages ==
  /\ entries # << >>
  /\ pos = Len(entries) + 1
  /\ rendered' = IF generator = "part_017" THEN packageMap ELSE rendered
  /\ pos' = pos + 1
  /\ UNCHANGED << entries, packageMap, compared, generator, releaseDate, runVars, loadVars, serveVars, callVars, runs, meta >>

\* Date.prototype.toUTCString: weekday, day, month, year, time and the
\* literal GMT
ToUTCString(now) == << now.weekday, now.day, now.month, now.year, now.time, "GMT" >>

\* the instants at which a Release file is generated
Instants ==
  { [weekday |-> "Thu,", day |-> "01", month |-> "Jan", year |-> "1970", time |-> "00:00:00"],
    [weekday |-> "Tue,", day |-> "03", month |-> "Nov", year |-> "2026", time |-> "12:30:05"] }

\* the Date of generateReleaseFile: toUTCString().replace('GMT', '+0000') in
\* part_017 and update-apt/generate-metadata.ts, toUTCString() in lib/apt.ts
ReleaseDate(g, now) ==
  LET date == ToUTCString(now)
      first == CHOOSE i \in DOMAIN date :
                 date[i] = "GMT" /\ \A j \in 1..(i - 1) : date[j] # "GMT"
  IN IF g = "lib" THEN date
     ELSE [i \in DOMAIN date |-> IF i = first THEN "+0000" ELSE date[i]]

\* generateReleaseFile, called with the Packages text
GenerateReleaseFile ==
  /\ entries # << >>
  /\ pos = Len(entries) + 2
  /\ releaseDate = << >>
  /\ \E now \in Instants : releaseDate' = ReleaseDate(generator, now)
  /\ UNCHANGED << entries, pos, packageMap, compared, rendered, generator,
                  runVars, loadVars, serveVars, callVars, runs, meta >>

RenderNext ==
  \/ RenderEntry
  \/ RenderPackages
  \/ GenerateReleaseFile

RenderSpec == RenderInit /\ [][RenderNext]_vars

\* ------------------------------------------------------------------------
\* The Filename of a Packages stanza and the worker that serves /apt/
\* ------------------------------------------------------------------------

\* 'https://proton.me/': the segments before the slash that ends it
PROTON_SERVER == << "https:", "", "proton.me" >>

\* the vendor downloads a stanza is rendered for
Upstreams ==
  { [product |-> "mail", version |-> v,
     url |-> Text(PROTON_SERVER \o << "download", "mail", "linux", v,
                                      "ProtonMail-desktop-beta.deb" >>, q)] :
      v \in {"1.9.1", "1.9.0"}, q \in {"", "?v=2"} }
  \cup
  { [product |-> "pass", version |-> v,
     url |-> Text(PROTON_SERVER \o << "download", "pass", "linux", f >>, q)] :
      v \in {"1.32.10"}, f \in {"proton-pass_1.32.10_amd64.deb", "ProtonPass.deb"},
      q \in {"", "?v=2"} }
  \cup
  \* a download on another host, listed by a manifest that the loader of
  \* the hash-only script lets through
  { [product |-> "mail", version |-> "1.9.0",
     url |-> Text(<< "https:", "", "evil.example", "app.deb" >>, "")] }

\* extractProxyPath: url.replace(PROTON_SERVER, ''), a leading slash when
\* there is none, the prefix proxy
ExtractProxyPath(url) ==
  LET n == Len(PROTON_SERVER)
      path == IF Len(url.segments) > n /\ SubSeq(url.segments, 1, n) = PROTON_SERVER
                THEN SubSeq(url.segments, n + 1, Len(url.segments))
                ELSE url.segments
      normalizedPath == IF path # << >> /\ path[1] = "" /\ Len(path) > 1
                          THEN Tail(path) ELSE path
  IN Text(<< "proxy" >> \o normalizedPath, url.query)

\* generatePoolPath of calculate-links: the key of the URL mapping
GeneratePoolPath(pkg) ==
  LET packageName == IF pkg.product = "mail" THEN "proton-mail" ELSE "proton-pass"
      \* the file name: three parts joined by "_"
      file == << packageName, pkg.version, "amd64.deb" >>
  IN << "pool", "main", "p", packageName, file >>

\* handleAptProxyRedirect: the path behind /apt/proxy/ on https://proton.me/
HandleAptProxyRedirect(path) ==
  [status |-> 302, location |-> Text(PROTON_SERVER \o SubSeq(path, 3, Len(path)), "")]

\* handleAptPoolProxy: the download URL the mapping holds for the pool path
HandleAptPoolProxy(path, mapped, pkg) ==
  IF ~mapped THEN [status |-> 404, location |-> NoText]
  ELSE IF SubSeq(path, 2, Len(path)) # GeneratePoolPath(pkg)
    THEN [status |-> 404, location |-> NoText]
    ELSE [status |-> 302, location |-> pkg.url]

\* fetch of the worker: new URL(request.url).pathname leaves the query out;
\* the routes of /apt/ that lead to a download
WorkerFetch(w, requestUrl, mapped, pkg) ==
  LET path == requestUrl.segments
  IN IF w = "proxy" /\ Len(path) > 2 /\ SubSeq(path, 1, 2) = << "apt", "proxy" >>
       THEN HandleAptProxyRedirect(path)
     ELSE IF w = "pool" /\ Len(path) > 2 /\ SubSeq(path, 1, 2) = << "apt", "pool" >>
       THEN HandleAptPoolProxy(path, mapped, pkg)
     ELSE [status |-> 404, location |-> NoText]

ServeInit ==
  /\ worker \in {"proxy", "pool"}
  /\ upstream \in Upstreams
  /\ kvMapping \in BOOLEAN
  /\ filename = NoText
  /\ response = NoResponse
  /\ NoBatch
  /\ NoLoad
  /\ NoRender
  /\ NoCall
  /\ NoOverlap
  /\ NoMeta

\* generatePackagesFile writes the Filename field of the stanza
RenderFilename ==
  /\ worker # "none"
  /\ filename = NoText
  /\ filename' = ExtractProxyPath(upstream.url)
  /\ UNCHANGED << worker, upstream, kvMapping, response, runVars, loadVars, renderVars, callVars, runs, meta >>

\* a client asks the worker for a path under /apt/: the Filename of the
\* stanza, the pool path of the package, or a proxy path that names
\* another host
WorkerRequest ==
  /\ filename # NoText
  /\ response = NoResponse
  /\ \E target \in {filename, Text(GeneratePoolPath(upstream), ""),
                     Text(<< "proxy", "", "evil.example", "app.deb" >>, "")} :
       LET request == Text(<< "apt" >> \o target.segments, target.query)
           answer == WorkerFetch(worker, request, kvMapping, upstream)
       IN response' = [request |-> request, status |-> answer.status,
                       location |-> answer.location]
  /\ UNCHANGED << worker, upstream, kvMapping, filename, runVars, loadVars, renderVars, callVars, runs, meta >>

ServeNext ==
  \/ RenderFilename
  \/ WorkerRequest

ServeSpec == ServeInit /\ [][ServeNext]_vars

\* ------------------------------------------------------------------------
\* One call of a descriptor builder: DescriptorFromFile, and the inline
\* steps of the previous workflow script (calculateHashes, the comparison,
\* extractDebMetadata)
\* ------------------------------------------------------------------------

Builders == {"DescriptorFromFile", "part_016"}

\* what the GET of the file can bring: a response with its status and body,
\* or no response at all (status 0)
HttpAnswers ==
  { [status |-> 200, body |-> "good"], [status |-> 200, body |-> "bad"],
    [status |-> 404, body |-> "errorpage"], [status |-> 500, body |-> "errorpage"],
    [status |-> 0, body |-> "none"] }

Settled(state, code, body, error) ==
  [state |-> state, status |-> code, body |-> body, error |-> error]

\* the Content-Length header of the answer to the HEAD request: absent, or
\* a decimal text
ContentLengths == {"absent", "4", "3"}

\* Number.parseInt(text, 10)
ParseInt(text) ==
  CASE text = "0" -> 0 [] text = "3" -> 3 [] text = "4" -> 4

\* Number.parseInt(response.headers.get('content-length') || '0', 10)
SizeOfHeader(header) == ParseInt(IF header = "absent" THEN "0" ELSE header)

\* buffer.length / the sum of chunk.length of a body
ByteLength(body) ==
  CASE body = "good" -> 4 [] body = "bad" -> 3 [] body = "errorpage" -> 9 [] OTHER -> 0

\* the digests of a body
HashDescriptor(body) ==
  [md5 |-> << "md5", body >>, sha256 |-> << "sha256", body >>, sha512 |-> Sha512Hex(body)]

\* { ...a, ...b }: the keys of both, b's value where both have the key
Spread(a, b) ==
  [k \in (DOMAIN a) \cup (DOMAIN b) |-> IF k \in DOMAIN b THEN b[k] ELSE a[k]]

\* the lines dpkg-deb -f prints for a package: the text before the first
\* colon and the text after it; a line with an empty key is a continuation
\* line without a colon
Line(key, rest) == [key |-> key, rest |-> rest]
ControlOutputs ==
  { << Line("Package", " proton-mail"), Line("Version", " 1.9.1"),
       Line("Architecture", " amd64"), Line("Maintainer", " Proton"),
       Line("Description", " Proton Mail"), Line("", " desktop application"),
       Line("Depends", " libgtk-3-0") >>,
    << Line("Package", " proton-mail"), Line("Version", " 1.9.1"),
       Line("Architecture", " amd64"), Line("Maintainer", " Proton") >>,
    << Line("Version", " 1.9.1"), Line("Architecture", " amd64"),
       Line("Section", " utils") >>,
    << Line("Package", " proton-mail"), Line("Version", " 1.9.1"),
       Line("Architecture", " amd64"), Line("Maintainer", " "),
       Line("Description", " "), Line("Priority", ""),
       Line("Homepage", " https://proton.me") >>,
    << >> }

\* key.toLowerCase()
FieldName(key) ==
  CASE key = "Package" -> "package" [] key = "Version" -> "version"
    [] key = "Architecture" -> "architecture" [] key = "Maintainer" -> "maintainer"
    [] key = "Description" -> "description" [] key = "Section" -> "section"
    [] key = "Priority" -> "priority" [] key = "Homepage" -> "homepage"
    [] key = "Depends" -> "depends" [] OTHER -> key

\* the second group of /^([^:]+):\s*(.+)$/ on a line: \s* gives back the
\* last blank when nothing else follows the colon; "" when the line does not
\* match
SecondGroup(line) ==
  CASE line.key = "" -> ""
    [] line.rest = "" -> ""
    [] line.rest = " " -> " "
    [] line.rest = " proton-mail" -> "proton-mail"
    [] line.rest = " 1.9.1" -> "1.9.1"
    [] line.rest = " amd64" -> "amd64"
    [] line.rest = " Proton" -> "Proton"
    [] line.rest = " Proton Mail" -> "Proton Mail"
    [] line.rest = " libgtk-3-0" -> "libgtk-3-0"
    [] line.rest = " utils" -> "utils"
    [] line.rest = " https://proton.me" -> "https://proton.me"
    [] OTHER -> line.rest

\* value.trim()
Trim(value) == IF value = " " THEN "" ELSE value

\* the loop over stdout.split('\n') that fills metadata
RECURSIVE ParseControl(_, _)
ParseControl(lines, metadata) ==
  IF lines = << >> THEN metadata
  ELSE LET line == Head(lines)
       IN IF line.key # "" /\ SecondGroup(line) # ""
            THEN ParseControl(Tail(lines),
                              Put(metadata, FieldName(line.key), Trim(SecondGroup(line))))
            ELSE ParseControl(Tail(lines), metadata)

RequiredFields == {"package", "version", "architecture", "maintainer"}
OptionalFields == {"description", "section", "priority", "homepage", "depends",
                   "recommends", "suggests"}

\* metadata.x, and whether it is truthy
Truthy(metadata, k) == k \in DOMAIN metadata /\ metadata[k] # ""

\* a result that holds every optional key, with "" for a field that is
\* not there
DebDescriptorOf_Placeholders(metadata) ==
  [k \in RequiredFields \cup OptionalFields |->
     IF Truthy(metadata, k) THEN metadata[k] ELSE ""]

\* the object literal returned by computeDebDescriptor / extractDebMetadata:
\* metadata.x || '' for the four required fields, a conditional spread for
\* each optional one
DebDescriptorOf(metadata) ==
  [k \in RequiredFields \cup {o \in OptionalFields : Truthy(metadata, o)} |->
     IF Truthy(metadata, k) THEN metadata[k] ELSE ""]

\* url.split('/').pop() || 'unknown'
PopSegment(url) == IF url = "mail/1.9.1.deb" THEN "1.9.1.deb" ELSE "unknown"

\* the rejection the caller sees is the first one
Reject(error, code) ==
  IF outcome.kind = "pending"
    THEN [kind |-> "error", error |-> error, status |-> code]
    ELSE outcome

CallInit ==
  /\ call \in [builder : Builders,
                file : {File(".deb", "mail/1.9.1.deb", sum) :
                          sum \in {Sha512Hex("good"), UpperDigest}}]
  /\ promises = [size |-> Idle, buffer |-> Idle, hash |-> Idle, deb |-> Idle]
  /\ gets = 0
  /\ disk = {}
  /\ outcome = Pending
  /\ resolved = NoResolved
  /\ NoBatch
  /\ NoLoad
  /\ NoRender
  /\ NoServe
  /\ NoOverlap
  /\ NoMeta

\* the synchronous start: DescriptorFromFile starts the HEAD and the GET
\* and chains the hash and deb computations on the buffer; the previous
\* script starts calculateHashes
StartCall ==
  /\ call.builder # "none"
  /\ promises.buffer.state = "idle"
  /\ gets' = gets + 1
  /\ promises' =
       IF call.builder = "DescriptorFromFile"
         THEN [size |-> Settled("pending", 0, "none", "none"),
               buffer |-> Settled("pending", 0, "none", "none"),
               hash |-> Settled("pending", 0, "none", "none"),
               deb |-> Settled("pending", 0, "none", "none")]
         ELSE [promises EXCEPT !.buffer = Settled("pending", 0, "none", "none")]
  /\ UNCHANGED << call, disk, outcome, resolved, runVars, loadVars, renderVars, serveVars, runs, meta >>

\* computeSizeDescriptor: the HEAD request settles
HeadSettles ==
  /\ promises.size.state = "pending"
  /\ \E ok \in BOOLEAN, header \in ContentLengths :
       IF ok
         THEN /\ promises' = [promises EXCEPT !.size = Settled("fulfilled", 200, "none", "none")]
              /\ resolved' = [resolved EXCEPT !.size = [size |-> SizeOfHeader(header)]]
              /\ outcome' = outcome
         ELSE /\ promises' = [promises EXCEPT !.size = Settled("rejected", 500, "none", "head")]
              /\ resolved' = resolved
              /\ outcome' = Reject("head", 500)
  /\ UNCHANGED << call, gets, disk, runVars, loadVars, renderVars, serveVars, runs, meta >>

\* the GET settles. fetchFileBuffer throws on a response that is not ok, and
\* the computations chained on the buffer reject with it; calculateHashes
\* digests the chunks of whatever response arrives and resolves at its end
GetSettles ==
  /\ promises.buffer.state = "pending"
  /\ \E answer \in HttpAnswers :
       IF answer.status = 0
         THEN /\ promises' =
                   IF call.builder = "DescriptorFromFile"
                     THEN [promises EXCEPT
                             !.buffer = Settled("rejected", 0, "none", "network"),
                             !.hash = Settled("rejected", 0, "none", "network"),
                             !.deb = Settled("rejected", 0, "none", "network")]
                     ELSE [promises EXCEPT
                             !.buffer = Settled("rejected", 0, "none", "network")]
              /\ outcome' = Reject("network", 0)
       ELSE IF call.builder = "DescriptorFromFile" /\ answer.status \notin 200..299
         THEN /\ promises' = [promises EXCEPT
                   !.buffer = Settled("rejected", answer.status, "none", "download"),
                   !.hash = Settled("rejected", answer.status, "none", "download"),
                   !.deb = Settled("rejected", answer.status, "none", "download")]
              /\ outcome' = Reject("download", answer.status)
       ELSE /\ promises' =
                 IF call.builder = "DescriptorFromFile"
                   THEN [promises EXCEPT
                           !.buffer = Settled("fulfilled", answer.status, answer.body, "none")]
                   ELSE [promises EXCEPT
                           !.buffer = Settled("fulfilled", answer.status, answer.body, "none"),
                           !.hash = Settled("pending", answer.status, answer.body, "none")]
            /\ outcome' = outcome
  /\ resolved' = IF call.builder = "part_016" /\ promises'.buffer.state = "fulfilled"
                THEN [resolved EXCEPT !.size = [size |-> ByteLength(promises'.buffer.body)]]
                ELSE resolved
  /\ UNCHANGED << call, gets, disk, runVars, loadVars, renderVars, serveVars, runs, meta >>

\* computeHashDescriptor digests the buffer and checks the sha512 against
\* the lower-cased vendor value; main of the previous script compares the
\* digest of calculateHashes with the vendor value as written
HashSettles ==
  /\ promises.buffer.state = "fulfilled"
  /\ promises.hash.state = "pending"
  /\ LET body == promises.buffer.body
         matches == IF call.builder = "DescriptorFromFile"
                      THEN Sha512Matches(call.file, Sha512Hex(body))
                      ELSE Sha512Hex(body) = call.file.Sha512CheckSum
     IN IF matches
          THEN /\ promises' = [promises EXCEPT
                    !.hash = Settled("fulfilled", promises.buffer.status, body, "none")]
               /\ resolved' = [resolved EXCEPT !.hash = HashDescriptor(body)]
               /\ outcome' = outcome
          ELSE /\ promises' = [promises EXCEPT
                    !.hash = Settled("rejected", promises.buffer.status, body, "mismatch")]
               /\ resolved' = resolved
               /\ outcome' = Reject("mismatch", promises.buffer.status)
  /\ UNCHANGED << call, gets, disk, runVars, loadVars, renderVars, serveVars, runs, meta >>

\* computeDebDescriptor / extractDebMetadata up to the await: mkdtempSync
\* and writeFileSync, which is outside the try; a write that fails can
\* leave a part of the file
DebStart ==
  /\ IF call.builder = "DescriptorFromFile"
       THEN promises.buffer.state = "fulfilled" /\ promises.deb.state = "pending"
       ELSE promises.hash.state = "fulfilled" /\ promises.deb.state = "idle"
  /\ \E writeOk \in BOOLEAN, partial \in BOOLEAN :
       IF writeOk
         THEN /\ disk' = disk \cup {"tmpDir", "tmpFile"}
              /\ promises' = [promises EXCEPT !.deb = Settled("running", 0, "none", "none")]
              /\ outcome' = outcome
         ELSE /\ disk' = disk \cup {"tmpDir"} \cup (IF partial THEN {"tmpFile"} ELSE {})
              /\ promises' = [promises EXCEPT !.deb = Settled("rejected", 0, "none", "write")]
              /\ outcome' = Reject("write", 0)
  /\ UNCHANGED << call, gets, resolved, runVars, loadVars, renderVars, serveVars, runs, meta >>

\* dpkg-deb returns or fails, the control fields are read, and the finally
\* block unlinks the temporary file, ignoring an unlink error
DebFinish ==
  /\ promises.deb.state = "running"
  /\ \E dpkgOk \in BOOLEAN, unlinkOk \in BOOLEAN, stdout \in ControlOutputs :
       /\ disk' = IF unlinkOk THEN disk \ {"tmpFile"} ELSE disk
       /\ IF dpkgOk
            THEN /\ promises' = [promises EXCEPT !.deb = Settled("fulfilled", 0, "none", "none")]
                 /\ resolved' = [resolved EXCEPT
                                !.stdout = stdout,
                                !.deb = DebDescriptorOf(ParseControl(stdout, EmptyMap))]
                 /\ outcome' = outcome
            ELSE /\ promises' = [promises EXCEPT !.deb = Settled("rejected", 0, "none", "dpkg")]
                 /\ resolved' = resolved
                 /\ outcome' = Reject("dpkg", 0)
  /\ UNCHANGED << call, gets, runVars, loadVars, renderVars, serveVars, runs, meta >>

\* a builder that assembles as soon as the digests are there
Joined_HashOnly == promises.hash.state = "fulfilled"

\* Promise.all of DescriptorFromFile; the awaits of the previous script
Joined ==
  /\ promises.hash.state = "fulfilled"
  /\ promises.deb.state = "fulfilled"
  /\ call.builder = "DescriptorFromFile" => promises.size.state = "fulfilled"

\* the descriptor is assembled from the parts
Assemble ==
  /\ outcome = Pending
  /\ Joined
  /\ outcome' = [kind |-> "descriptor", error |-> "none", status |-> 0]
  /\ resolved' = [resolved EXCEPT
                 !.descriptor =
                   Spread(Spread(Spread([url |-> call.file.Url,
                                         filename |-> PopSegment(call.file.Url)],
                                        resolved.size), resolved.deb), resolved.hash)]
  /\ UNCHANGED << call, promises, gets, disk, runVars, loadVars, renderVars, serveVars, runs, meta >>

CallNext ==
  \/ StartCall
  \/ HeadSettles
  \/ GetSettles
  \/ HashSettles
  \/ DebStart
  \/ DebFinish
  \/ Assemble

CallSpec == CallInit /\ [][CallNext]_vars

\* ------------------------------------------------------------------------
\* Two runs of download-and-descriptors-all.ts that overlap in time on the
\* same store
\* ------------------------------------------------------------------------

RunIds == {"A", "B"}

\* the batch variables an overlapping run does not use
OverlapIdle == << script, pkgText, runNo, phase, status, opts, storeAtStart, hashCache,
                 allFiles, idx, newHashCache, failed, counts, touched, downloads,
                 localFile, tasks, results, cacheUpdated, faults, prev, printed >>

OverlapInit ==
  /\ runs \in [RunIds -> [pc : {"start"}, manifest : ManifestVersions,
                           cache : {EmptyMap}, i : {1}, map : {EmptyMap}]]
  /\ NoBatch
  /\ NoLoad
  /\ NoRender
  /\ NoServe
  /\ NoCall
  /\ NoMeta

\* step 2 of main: the run loads the stored map
OverlapLoad(r) ==
  /\ runs[r].pc = "start"
  /\ runs' = [runs EXCEPT ![r] = [@ EXCEPT !.pc = "files",
                                           !.cache = DownloadDescriptorsCache(store, "ok").map]]
  /\ kvLog' = Append(kvLog, [op |-> "get", ok |-> TRUE, by |-> r])
  /\ UNCHANGED << store, OverlapIdle, loadVars, renderVars, serveVars, callVars, meta >>

\* step 4 of main: one file of the loop, reused from the loaded map or
\* computed; after the last one the run goes on to its upload
OverlapFile(r) ==
  /\ runs[r].pc = "files"
  /\ LET files == CollectAllFiles(runs[r].manifest)
         file == files[runs[r].i].file
         value == IF file.Url \in DOMAIN runs[r].cache
                    THEN runs[r].cache[file.Url]
                    ELSE Wrapped(DescriptorFromFile(file, "good", pkgText))
     IN runs' = [runs EXCEPT ![r] =
                   [@ EXCEPT !.map = Put(@, file.Url, value),
                             !.i = @ + 1,
                             !.pc = IF runs[r].i = Len(files) THEN "save" ELSE "files"]]
  /\ UNCHANGED << store, kvLog, OverlapIdle, loadVars, renderVars, serveVars, callVars, meta >>

\* an upload that adds the entries of the run to the stored map
OverlapSave_Patch(r) ==
  /\ runs[r].pc = "save"
  /\ store' = [present |-> TRUE,
               map |-> [u \in DOMAIN store.map \cup DOMAIN runs[r].map |->
                          IF u \in DOMAIN runs[r].map
                            THEN SetKvValue(runs[r].map).map[u] ELSE store.map[u]]]
  /\ kvLog' = Append(kvLog, [op |-> "put", ok |-> TRUE, by |-> r])
  /\ runs' = [runs EXCEPT ![r] = [@ EXCEPT !.pc = "done"]]
  /\ UNCHANGED << OverlapIdle, loadVars, renderVars, serveVars, callVars, meta >>

\* step 7 of main: uploadDescriptorsCache, one put of the whole map
OverlapSave(r) ==
  /\ runs[r].pc = "save"
  /\ \E ok \in BOOLEAN :
       /\ store' = IF ok THEN SetKvValue(runs[r].map) ELSE store
       /\ kvLog' = Append(kvLog, [op |-> "put", ok |-> ok, by |-> r])
  /\ runs' = [runs EXCEPT ![r] = [@ EXCEPT !.pc = "done"]]
  /\ UNCHANGED << OverlapIdle, loadVars, renderVars, serveVars, callVars, meta >>

OverlapNext ==
  \E r \in RunIds :
    \/ OverlapLoad(r)
    \/ OverlapFile(r)
    \/ OverlapSave(r)

OverlapSpec == OverlapInit /\ [][OverlapNext]_vars

\* ------------------------------------------------------------------------
\* The script that generates the APT metadata: the hash cache, the manifest
\* files of the cache directory, the filter, generatePackagesFile
\* ------------------------------------------------------------------------

\* the keys a stored hash cache can hold, in key order
CacheOrder == << "mail/1.9.1.deb", "mail/1.9.1.rpm", "mail/1.9.0.deb", "mail/beta.deb",
                "mail/1.8.0.deb", "pass/1.32.10.deb" >>

\* url.includes('/mail/') ? 'mail' : 'pass'
ExtractProductFromUrl(url) ==
  IF url \in {"mail/1.9.1.deb", "mail/1.9.1.rpm", "mail/1.9.0.deb", "mail/beta.deb",
              "mail/1.8.0.deb"}
    THEN "mail" ELSE "pass"

\* the version the two patterns of generatePackagesFile find in a URL
ExtractVersion(url) ==
  CASE url \in {"mail/1.9.1.deb", "mail/1.9.1.rpm"} -> << "1", "9", "1" >>
    [] url = "mail/1.9.0.deb"   -> << "1", "9", "0" >>
    [] url = "mail/1.8.0.deb"   -> << "1", "8", "0" >>
    [] url = "pass/1.32.10.deb" -> << "1", "32", "10" >>
    [] url = "pass/1.32.9.deb"  -> << "1", "32", "9" >>
    [] OTHER                    -> Unknown

\* the loop of generatePackagesFile over the entries: the entry kept for
\* each package name
RECURSIVE LatestOf(_, _)
LatestOf(urls, kept) ==
  IF urls = << >> THEN kept
  ELSE LET url == Head(urls)
           version == ExtractVersion(url)
           packageName == IF ExtractProductFromUrl(url) = "mail"
                            THEN "proton-mail" ELSE "proton-pass"
       IN IF version = Unknown THEN LatestOf(Tail(urls), kept)
          ELSE IF packageName \notin DOMAIN kept
                  \/ CompareVersions(version, kept[packageName].version) > 0
            THEN LatestOf(Tail(urls),
                          Put(kept, packageName, [version |-> version, url |-> url]))
          ELSE LatestOf(Tail(urls), kept)

\* the stanzas of the Packages text, one per kept entry
GeneratePackagesFile(urls) == LatestOf(urls, EmptyMap)

\* the URLs main takes from the manifest file of a product
ValidUrlsOf(product, version) ==
  {f.file.Url : f \in Range(SelectSeq(FlatFiles(product, ManifestOf(product, version).Releases),
                                      IsCandidateGh))}

MetaInit ==
  /\ meta \in [pc : {"load"}, version : ManifestVersions,
                hashCache : {SelectSeq(CacheOrder, LAMBDA u : u \in held) :
                               held \in SUBSET Range(CacheOrder)},
                products : {PROTON_PRODUCTS}, validUrls : {{}},
                filtered : {<< >>}, included : {0}, excluded : {0},
                packages : {EmptyMap}, status : {"running"}]
  /\ NoBatch
  /\ NoLoad
  /\ NoRender
  /\ NoServe
  /\ NoCall
  /\ NoOverlap

\* step 2 of main: no hash cache, or an empty one, ends the run
MetaLoad ==
  /\ meta # << >>
  /\ meta.pc = "load"
  /\ meta' = IF meta.hashCache = << >>
               THEN [meta EXCEPT !.pc = "done", !.status = "exit1"]
               ELSE [meta EXCEPT !.pc = "read"]
  /\ UNCHANGED << runVars, loadVars, renderVars, serveVars, callVars, runs >>

\* step 3 of main: the manifest file of the next product; a missing file
\* ends the run
MetaRead ==
  /\ meta # << >>
  /\ meta.pc = "read"
  /\ \E exists \in BOOLEAN :
       meta' = IF ~exists
                 THEN [meta EXCEPT !.pc = "done", !.status = "exit1"]
                 ELSE [meta EXCEPT
                         !.validUrls = @ \cup ValidUrlsOf(Head(meta.products), meta.version),
                         !.products = Tail(@),
                         !.pc = IF Tail(meta.products) = << >> THEN "filter" ELSE "read"]
  /\ UNCHANGED << runVars, loadVars, renderVars, serveVars, callVars, runs >>

\* a step 4 that lets every entry through
MetaFilter_KeepAll ==
  /\ meta # << >>
  /\ meta.pc = "filter"
  /\ meta' = [meta EXCEPT !.filtered = meta.hashCache,
                          !.included = Len(meta.hashCache),
                          !.pc = "generate"]
  /\ UNCHANGED << runVars, loadVars, renderVars, serveVars, callVars, runs >>

\* step 4 of main: the entries whose URL is in validUrls
MetaFilter ==
  /\ meta # << >>
  /\ meta.pc = "filter"
  /\ LET kept == SelectSeq(meta.hashCache, LAMBDA u : u \in meta.validUrls)
     IN meta' = [meta EXCEPT !.filtered = kept,
                             !.included = Len(kept),
                             !.excluded = Len(meta.hashCache) - Len(kept),
                             !.pc = "generate"]
  /\ UNCHANGED << runVars, loadVars, renderVars, serveVars, callVars, runs >>

\* steps 5 and 6 of main: the Packages text of the filtered cache
MetaGenerate ==
  /\ meta # << >>
  /\ meta.pc = "generate"
  /\ meta' = [meta EXCEPT !.packages = GeneratePackagesFile(meta.filtered),
                          !.pc = "done", !.status = "exit0"]
  /\ UNCHANGED << runVars, loadVars, renderVars, serveVars, callVars, runs >>

MetaNext ==
  \/ MetaLoad
  \/ MetaRead
  \/ MetaFilter
  \/ MetaGenerate

MetaSpec == MetaInit /\ [][MetaNext]_vars

\* ------------------------------------------------------------------------
\* Properties
\* ------------------------------------------------------------------------

\* every FileRef of every manifest version
AllFileRefs ==
  UNION {{f.file : f \in Range(FlatFiles(p, ManifestOf(p, v).Releases))} :
           p \in Range(PROTON_PRODUCTS), v \in ManifestVersions}

\* the vendor-declared digest of the FileRef of a URL
VendorSha512(url) == (CHOOSE f \in AllFileRefs : f.Url = url).Sha512CheckSum

\* the scripts that build PackageDescriptors (the hash-only script stores
\* bare hash entries under its own cache schema)
DescriptorScripts == {"gh", "gh_old", "dev"}

\* the descriptor map of the current run, as far as it is assembled
RunResult ==
  IF script = "dev" /\ tasks # NoTasks
    THEN Combine(opts.targets, tasks, EmptyMap)
    ELSE newHashCache

\* the URLs of the candidate files of the current run
CandidateUrls ==
  IF script = "dev"
    THEN UNION {{f.file.Url : f \in Range(ProductFiles(p, opts.manifest))} :
                  p \in Range(opts.targets)}
    ELSE {f.file.Url : f \in Range(CollectAllFiles(opts.manifest))}

ReportedUrls == {failed[i].url : i \in DOMAIN failed}

C2_PartialFailureSaved ==
  ( /\ phase = "done" /\ status # "killed"
    /\ Len(allFiles) = 5 /\ idx > 5
    /\ Len(failed) = 1
    /\ failed[1].url = allFiles[3].file.Url
    /\ failed[1].error.kind = "mismatch" )
  => ( /\ DOMAIN newHashCache = {allFiles[i].file.Url : i \in {1, 2, 4, 5}}
       /\ failed[1].error.expected # NoDigest
       /\ failed[1].error.computed # NoDigest
       /\ \E i \in DOMAIN kvLog : kvLog[i].op = "put" )

\* C3: when a file of the batch fails, every other candidate file is still
\* handled and the failed file is in the failure list of the run
C3_FailureIsolated ==
  ( /\ script \in DescriptorScripts
    /\ phase = "done" /\ status # "killed"
    /\ downloads \ DOMAIN RunResult # {} )
  => ( /\ CandidateUrls \subseteq touched
       /\ downloads \ DOMAIN RunResult \subseteq ReportedUrls )

\* the read of the store did not deliver a usable map
BadRead(value, log) ==
  /\ log # << >>
  /\ log[1].op = "get"
  /\ ~log[1].ok \/ ~value.present \/ ~JsonParses(value)

\* C4: loading the cache never fails the caller: after a read of a missing
\* key, a failed read or an unparseable value the cache is empty and the run
\* goes on to collect and process its files
C4_LoadNeverFails ==
  [][ (phase = "load" /\ phase' # "load" /\ status' # "killed")
        => /\ status' = "running"
           /\ phase' \in {"collect", "process"}
           /\ BadRead(store, kvLog') => hashCache'.map = EmptyMap ]_vars

\* a run whose read failed builds descriptors from a cold start
C4_Witness ==
  /\ kvLog # << >> /\ kvLog[1].op = "get" /\ ~kvLog[1].ok
  /\ storeAtStart.present
  /\ downloads # {}
  /\ DOMAIN RunResult # {}

\* C5: a run whose write of the map failed ends with a failure status
C5_SaveFailurePropagated ==
  ( /\ phase = "done" /\ status # "killed"
    /\ \E i \in DOMAIN kvLog : kvLog[i].op = "put" /\ ~kvLog[i].ok )
  => status = "exit1"

\* C6: outside force mode the result for a candidate URL that is in the
\* loaded cache is the cached value unchanged, and the URL is not downloaded,
\* whatever its lastVerified
C6_CachedReused ==
  opts.useCache =>
    \A u \in touched \cap DOMAIN hashCache.map :
      /\ u \notin downloads
      /\ phase \in {"process", "summary", "save", "done"} /\ status # "exit1"
           => u \in DOMAIN RunResult /\ RunResult[u] = hashCache.map[u]

\* an entry verified by an earlier run is reused
C6_Witness ==
  /\ opts.useCache
  /\ \E u \in touched \cap DOMAIN hashCache.map :
       /\ hashCache.map[u].descriptor.lastVerified > 0
       /\ hashCache.map[u].descriptor.lastVerified < runNo
       /\ u \in DOMAIN RunResult

\* C7: a second run with the same options and an unchanged manifest, after a
\* run that succeeded and saved, and whose own read of the store succeeded,
\* produces the descriptors of the first run and downloads no file
C7_SecondRunIdentical ==
  ( /\ script \in DescriptorScripts
    /\ prev.saved
    /\ prev.opts = opts /\ opts.useCache
    /\ KvGetSucceeded
    /\ phase = "done" /\ status = "exit0" )
  => ( /\ RunResult = prev.result
       /\ downloads = {} )

\* C8: in force mode every handled URL is downloaded and its descriptor
\* rebuilt and validated, the store is not consulted, and a run that
\* completes has downloaded every candidate URL
C8_ForceBypassesCache ==
  (script = "dev" /\ ~opts.useCache /\ phase # "idle") =>
    /\ touched \subseteq downloads
    /\ \A i \in DOMAIN kvLog : kvLog[i].op # "get"
    /\ \A u \in DOMAIN RunResult :
         /\ u \in downloads
         /\ RunResult[u].descriptor.sha512 = ToLowerCase(VendorSha512(u))
    /\ (phase = "done" /\ status = "exit0") => CandidateUrls \subseteq downloads

\* a force run rebuilt a descriptor the store already holds
C8_Witness ==
  /\ script = "dev" /\ ~opts.useCache
  /\ phase = "done" /\ status = "exit0"
  /\ \E u \in DOMAIN storeAtStart.map : u \in downloads /\ u \in DOMAIN RunResult

\* C9: within one run the store is read at most once, before any file is
\* handled, and written at most once, after the last file was handled
C9_ReadOnceWriteOnce ==
  /\ Len(kvLog) <= 2
  /\ \A i \in DOMAIN kvLog :
       /\ kvLog[i].op = "get" => i = 1 /\ kvLog[i].handled = 0
       /\ kvLog[i].op = "put" =>
            /\ i = Len(kvLog)
            /\ kvLog[i].handled = Cardinality(touched)
            /\ phase \in {"summary", "done"}

\* a run read the store, handled files and wrote the store
C9_Witness ==
  /\ Len(kvLog) = 2
  /\ kvLog[1].op = "get" /\ kvLog[2].op = "put"
  /\ kvLog[2].handled > 0

\* C10: as long as a run has not written the map back, and also when it is
\* killed or exits before that, the store holds what it held at the start
C10_StoreKeptUntilWriteBack ==
  /\ phase \in {"load", "collect", "process"} => store = storeAtStart
  /\ (phase # "idle" /\ ~KvPutSucceeded) => store = storeAtStart

\* a run with newly computed entries is killed: the cached entries remain
C10_Witness ==
  /\ phase = "done" /\ status = "killed"
  /\ storeAtStart.present /\ DOMAIN storeAtStart.map # {}
  /\ DOMAIN RunResult \ DOMAIN storeAtStart.map # {}
  /\ store = storeAtStart

\* the FileRefs of a manifest
FilesOf(m) ==
  UNION {{m.Releases[r].File[i] : i \in DOMAIN m.Releases[r].File} : r \in DOMAIN m.Releases}

\* the manifest load has returned its manifest to the script
LoadReturned == loadState \in {"accepted", "enumerated"}

\* C11: a manifest with a FileRef, in any release, whose URL does not start
\* with the vendor origin is not returned by the load, and none of its files
\* is handed to the descriptor builder
C11_ForeignOriginRejected ==
  (\E f \in FilesOf(manifest) : ~UrlStartsWithServer(f.Url))
    => ~LoadReturned /\ built = {}

\* a manifest without a release, or with a FileRef whose identifier is
\* empty, whose URL is malformed or whose digest is not HexLen hex characters
Defective(m) ==
  \/ m.Releases = << >>
  \/ \E f \in FilesOf(m) :
       \/ f.Identifier = ""
       \/ f.Url \in MalformedUrls
       \/ Len(f.Sha512CheckSum) # HexLen
       \/ \E i \in DOMAIN f.Sha512CheckSum : f.Sha512CheckSum[i] \notin HexChars

SoundWhenFolded(m) ==
  /\ m.Releases # << >>
  /\ \A f \in FilesOf(m) :
       /\ ProtonIdentifierSchema(IdentifierToLowerCase(f.Identifier))
       /\ IsUrl(f.Url) /\ UrlStartsWithServer(f.Url)
       /\ Sha512Schema(f.Sha512CheckSum)

\* C13: once load and enumeration are over, the candidates are exactly the
\* FileRefs whose case-folded identifier starts with an allowed prefix and
\* whose URL is not on the denylist
C13_CaseFoldedFilter ==
  ( /\ loader \in {"workflow", "dev"}
    /\ SoundWhenFolded(manifest)
    /\ loadState \in {"rejected", "enumerated"} )
  => {candidates[i].file : i \in DOMAIN candidates}
       = {f \in FilesOf(manifest) :
            /\ StartsWith(IdentifierToLowerCase(f.Identifier), PROTON_IDENTIFIER_PREFIX.DEB)
            /\ f.Url \notin PROTON_IGNORE_FILE_URLS}

\* C14: a URL of the ignore list is never handled and never downloaded
C14_IgnoredNeverCandidate ==
  /\ (touched \cup downloads) \cap PROTON_IGNORE_FILE_URLS = {}
  /\ built \cap PROTON_IGNORE_FILE_URLS = {}


\* ------------------------------------------------------------------------
\* generatePackagesFile: latest-version selection
\* ------------------------------------------------------------------------

\* a version whose parts are all integers
IsDottedInteger(version) ==
  version # Unknown /\ \A i \in DOMAIN version : ~NumberOf(version[i]).nan

\* a is greater than or equal to b, integer by integer from the left, a
\* missing integer being 0
VersionGeq(a, b) ==
  LET n == Max(Len(a), Len(b))
      IntegerAt(version, i) == IF i \in DOMAIN version THEN NumberOf(version[i]).val ELSE 0
  IN \/ \A i \in 1..n : IntegerAt(a, i) = IntegerAt(b, i)
     \/ \E k \in 1..n : /\ IntegerAt(a, k) > IntegerAt(b, k)
                         /\ \A i \in 1..(k - 1) : IntegerAt(a, i) = IntegerAt(b, i)

\* the Packages text has been written
RenderDone == entries # << >> /\ pos = Len(entries) + 2

C16_UnparseableExcluded ==
  \A version \in compared \cup Range(rendered) : IsDottedInteger(version)

\* ------------------------------------------------------------------------
\* Exit codes, descriptor contents and write-back
\* ------------------------------------------------------------------------

\* every candidate file of the run was handled
AllFilesHandled ==
  IF script = "dev"
    THEN tasks # NoTasks /\ \A p \in DOMAIN tasks : tasks[p].stage = "done"
    ELSE phase \in {"process", "save", "done"} /\ idx > Len(allFiles)

KvPutFailed == \E i \in DOMAIN kvLog : kvLog[i].op = "put" /\ ~kvLog[i].ok

\* C17: a run that handled all its files, of which some failed validation,
\* and whose save did not fail ends with exit code 0; a run whose save failed
\* ends with exit code 1.
C17_ExitCodes ==
  (script \in DescriptorScripts /\ phase = "done" /\ status # "killed")
    => /\ (AllFilesHandled /\ failed # << >> /\ ~KvPutFailed) => status = "exit0"
       /\ KvPutFailed => status = "exit1"

\* C18: after a successful run without failed files the store holds one
\* entry per candidate URL when it was empty before, and the entry of every
\* file verified in the run is a descriptor whose filename is the last
\* segment of the URL, whose sha512 is the declared one and whose
\* lastVerified is the time of the run.
C18_FreshDescriptor ==
  ( /\ script \in DescriptorScripts
    /\ phase = "done" /\ status = "exit0" /\ KvPutSucceeded
    /\ failed = << >> )
  => /\ DOMAIN storeAtStart.map = {} => DOMAIN store.map = CandidateUrls
     /\ \A u \in downloads :
          /\ u \in DOMAIN store.map
          /\ ~store.map[u].wrapper
          /\ store.map[u].descriptor.filename = Basename(u)
          /\ store.map[u].descriptor.sha512 = ToLowerCase(VendorSha512(u))
          /\ store.map[u].descriptor.lastVerified = runNo

\* C19: the digest check ignores letter case: no file whose computed sha512
\* equals the vendor sha512 in lower case is reported as a mismatch.
C19_CaseInsensitiveCheck ==
  script \in DescriptorScripts =>
    \A i \in DOMAIN failed :
      failed[i].error.kind = "mismatch"
        => failed[i].error.computed # ToLowerCase(VendorSha512(failed[i].url))

\* C20: the map written back by a successful run holds every entry that was
\* in the store when the run started, unchanged.
C20_WriteBackKeepsEntries ==
  (script \in DescriptorScripts /\ phase = "done" /\ status = "exit0" /\ KvPutSucceeded)
    => \A u \in DOMAIN storeAtStart.map :
         u \in DOMAIN store.map /\ store.map[u] = storeAtStart.map[u]

\* ------------------------------------------------------------------------
\* Serving
\* ------------------------------------------------------------------------

\* C21: the request for /apt/ followed by the Filename of a stanza, whether
\* the upstream URL has a query string or not, is answered by a redirect to
\* the path of the upstream URL on the vendor origin.
C21_FilenameResolves ==
  (response # NoResponse /\ response.request.segments = << "apt" >> \o filename.segments)
    => /\ response.status = 302
       /\ response.location.segments = upstream.url.segments

\* C22: the Date of every generated Release file ends with the offset +0000
\* and holds the literal GMT nowhere.
C22_ReleaseDateOffset ==
  releaseDate # << >>
    => releaseDate[Len(releaseDate)] = "+0000" /\ "GMT" \notin Range(releaseDate)

C24_DownloadErrorOnStatus ==
  (promises.buffer.status # 0 /\ promises.buffer.status \notin 200..299)
    => /\ promises.hash.state = "rejected"
       /\ promises.hash.error = "download"
       /\ promises.hash.status = promises.buffer.status
       /\ promises.hash.body = "none"
       /\ outcome.kind # "descriptor"
       /\ gets = 1

\* ------------------------------------------------------------------------
\* Overlapping runs
\* ------------------------------------------------------------------------

RunCompleted ==
  /\ script \in DescriptorScripts
  /\ phase = "done" /\ status \in {"exit0", "exit1"}
  /\ script # "dev" => allFiles # << >>
  /\ AllFilesHandled

\* C26: a run that reaches completion has printed the number of files
\* reused from the cache, the number newly computed and the number failed,
\* and the three add up to the number of candidate files of the run.
C26_SummaryCounts ==
  RunCompleted =>
    \E r \in printed.reused, c \in printed.computed, f \in printed.failed :
      r + c + f = Cardinality(CandidateUrls)

\* the URLs of the files of the products the run was not started for
UrlsOutsideFilter ==
  UNION {{f.file.Url : f \in Range(ProductFiles(p, m))} :
           p \in Range(PROTON_PRODUCTS) \ Range(opts.targets), m \in ManifestVersions}

\* C27: after the write-back of a run restricted to one product, every
\* entry the store held at the start of the run for a URL of another
\* product is still in the store, unchanged.
C27_FilterLeavesOthers ==
  (script = "dev" /\ phase = "done" /\ KvPutSucceeded)
    => \A u \in UrlsOutsideFilter \cap DOMAIN storeAtStart.map :
         u \in DOMAIN store.map /\ store.map[u] = storeAtStart.map[u]

\* C28: every value of the map a run assembles and of the stored map,
\* reused or newly computed, is the PackageDescriptor itself, with the url
\* field equal to its key.
C28_ValuesAreDescriptors ==
  script \in DescriptorScripts =>
    /\ \A u \in DOMAIN newHashCache :
         ~newHashCache[u].wrapper /\ newHashCache[u].descriptor.url = u
    /\ \A u \in DOMAIN store.map :
         ~store.map[u].wrapper /\ store.map[u].descriptor.url = u

\* ------------------------------------------------------------------------
\* One call of the builder
\* ------------------------------------------------------------------------

C30_NothingLeftBehind ==
  promises.deb.state \in {"fulfilled", "rejected"} => disk = {}

\* ------------------------------------------------------------------------
\* Completion order
\* ------------------------------------------------------------------------

\* the entry a processProduct call puts under the URL of a file: the cached
\* one, or the descriptor of the validated download
EntryOf(file) ==
  IF Lookup(hashCache, file.Url) # {}
    THEN CHOOSE c \in Lookup(hashCache, file.Url) : TRUE
    ELSE Bare([DescriptorFromFile(file, "good", pkgText).descriptor
                 EXCEPT !.sha512 = ToLowerCase(file.Sha512CheckSum)])

\* the map over the first n files of a sequence of candidate files
MapOfFirst(files, n) ==
  [u \in {files[k].file.Url : k \in 1..n} |->
     EntryOf((CHOOSE f \in Range(files) : f.file.Url = u).file)]

\* C31: whatever the interleaving of the processProduct calls, the map of
\* each call depends only on the files that call has got through, the
\* failure list is the same, and the combined map of a run that got
\* through every file is the one map determined by manifest and cache.
C31_OrderIndependent ==
  (script = "dev" /\ tasks # NoTasks) =>
    /\ \A p \in DOMAIN tasks :
         tasks[p].stage \in {"files", "done"}
           => tasks[p].result = MapOfFirst(tasks[p].files, tasks[p].i - 1)
    /\ failed = << >>
    /\ localFile.written =>
         /\ DOMAIN newHashCache = CandidateUrls
         /\ \A p \in DOMAIN tasks : \A u \in DOMAIN tasks[p].result :
              newHashCache[u] = tasks[p].result[u]

\* the call for the second product has computed all its files while the
\* call for the first product has not got through its first file
C31_Witness ==
  /\ script = "dev" /\ phase = "process"
  /\ opts.targets = PROTON_PRODUCTS
  /\ tasks # NoTasks
  /\ LET first == tasks[PROTON_PRODUCTS[1]]
         second == tasks[PROTON_PRODUCTS[2]]
     IN /\ first.stage = "files" /\ first.i = 1
        /\ second.stage = "done" /\ DOMAIN second.result # {}
        /\ DOMAIN second.result \cap downloads # {}

\* ------------------------------------------------------------------------
\* Save and load
\* ------------------------------------------------------------------------

\* C32: the load of the store after a run has saved its map returns exactly
\* the map that was saved, whatever the text fields of its descriptors hold.
C32_SaveLoadRoundTrip ==
  (script \in DescriptorScripts /\ phase = "done" /\ status = "exit0" /\ KvPutSucceeded)
    => LET loaded == DownloadDescriptorsCache(store, "ok")
       IN ~loaded.isNull /\ loaded.map = newHashCache

\* ------------------------------------------------------------------------
\* The generated metadata
\* ------------------------------------------------------------------------

\* the candidate URLs of the manifest the metadata run reads
MetaCandidates == {f.file.Url : f \in Range(CollectAllFiles(meta.version))}

\* C33: every stanza of the generated Packages text is the stanza of a URL
\* that is a candidate of the current manifest: no entry of a URL that the
\* manifest does not list, that is on the denylist or that is no .deb file
\* is rendered.
C33_OnlyCandidatesRendered ==
  meta # << >> =>
    \A n \in DOMAIN meta.packages :
      /\ meta.packages[n].url \in MetaCandidates
      /\ meta.packages[n].url \notin PROTON_IGNORE_FILE_URLS

\* the cache holds the entry of a release the manifest no longer lists, a
\* denylisted entry and an rpm entry, and the text was generated for the
\* older release that is still listed
C33_Witness ==
  /\ meta # << >>
  /\ meta.pc = "done" /\ meta.status = "exit0"
  /\ meta.version = 1
  /\ {"mail/1.9.1.deb", "mail/beta.deb", "mail/1.9.1.rpm"} \subseteq Range(meta.hashCache)
  /\ "proton-mail" \in DOMAIN meta.packages
  /\ meta.packages["proton-mail"].url = "mail/1.9.0.deb"

\* C34: the Packages text generated from the entries of one package holds
\* at most one stanza, and its version is an entry of the group that is a
\* dotted sequence of integers and is greater than or equal to every such
\* entry of the group.
C34_OneStanzaPerPackage ==
  RenderDone =>
    /\ Len(rendered) <= 1
    /\ \A k \in DOMAIN rendered :
         /\ rendered[k] \in Range(entries)
         /\ IsDottedInteger(rendered[k])
         /\ \A i \in DOMAIN entries :
              IsDottedInteger(entries[i]) => VersionGeq(rendered[k], entries[i])

\* ------------------------------------------------------------------------
\* A failed save
\* ------------------------------------------------------------------------

\* C35: when the upload of a run is attempted its descriptor map is already
\* in the local file, and a run whose upload failed has said that the map
\* was saved locally and that the upload failed.
C35_LocalBeforeRemote ==
  script \in {"gh", "dev"} =>
    /\ (phase = "save" \/ (kvLog # << >> /\ kvLog[Len(kvLog)].op = "put"))
         => localFile = [written |-> TRUE, map |-> newHashCache]
    /\ (phase = "done" /\ KvPutFailed)
         => {"saved locally", "upload failed"} \subseteq printed.lines

\* the upload of a workflow run with two computed files failed: exit code
\* 1, the store as before, both descriptors in the local file
C35_Witness ==
  /\ script = "gh" /\ phase = "done" /\ status = "exit1"
  /\ KvPutFailed
  /\ store = storeAtStart
  /\ counts.computed >= 2
  /\ localFile.written /\ DOMAIN localFile.map = downloads

\* ------------------------------------------------------------------------
\* Redirect targets
\* ------------------------------------------------------------------------

\* C36: every redirect the worker answers with has a Location on the host
\* of PROTON_SERVER, whatever path is requested.
C36_RedirectsToVendor ==
  response.status = 302 =>
    /\ Len(response.location.segments) >= Len(PROTON_SERVER)
    /\ SubSeq(response.location.segments, 1, Len(PROTON_SERVER)) = PROTON_SERVER

\* C37: a run of the metadata script that writes the Packages file writes
\* at least one stanza: when the filter and the skipping of unknown versions
\* leave no entry, the run fails instead of writing an empty file.
C37_NeverEmptyPackages ==
  (meta # << >> /\ meta.pc = "done" /\ meta.status = "exit0")
    => DOMAIN meta.packages # {}

\* ------------------------------------------------------------------------
\* Latest-version selection: trailing zeros and ties
\* ------------------------------------------------------------------------

\* the parts of a version without its trailing parts "0"
RECURSIVE StripZeros(_)
StripZeros(version) ==
  IF version # << >> /\ version[Len(version)] = "0"
    THEN StripZeros(SubSeq(version, 1, Len(version) - 1))
    ELSE version

\* C38: in the latest-version selection of part_017 two dotted-integer
\* versions that differ only by trailing 0 components (1.10 and 1.10.0)
\* compare equal, and of two entries of a package that compare equal the
\* later one is never the one written to the Packages text.
C38_TrailingZerosAndTies ==
  ( /\ generator = "part_017"
    /\ RenderDone
    /\ \A i \in DOMAIN entries : entries[i] = Unknown \/ IsDottedInteger(entries[i]) )
    => \A i, j \in DOMAIN entries :
         (entries[i] # Unknown /\ entries[j] # Unknown)
           => /\ StripZeros(entries[i]) = StripZeros(entries[j])
                   => CompareVersions(entries[i], entries[j]) = 0
              /\ ( /\ i < j
                   /\ VersionGeq(entries[i], entries[j])
                   /\ VersionGeq(entries[j], entries[i]) )
                   => rendered # << entries[j] >>

\* 1.10 came before 1.10.0, the two were compared, and 1.10 was written
C38_Witness ==
  /\ generator = "part_017"
  /\ RenderDone
  /\ entries = << << "1", "9", "1" >>, << "1", "10" >>, << "1", "10", "0" >> >>
  /\ {<< "1", "10" >>, << "1", "10", "0" >>} \subseteq compared
  /\ rendered = << << "1", "10" >> >>

\* ------------------------------------------------------------------------
\* The parts of a descriptor: size and control fields
\* ------------------------------------------------------------------------

\* C39: the size of every descriptor a builder delivers is a positive
\* integer and is the number of bytes of the body its digests were computed
\* over.
C39_SizeIsBytesDigested ==
  outcome.kind = "descriptor"
    => /\ resolved.descriptor.size \in Nat \ {0}
       /\ resolved.descriptor.size = ByteLength(promises.hash.body)

\* the control output of the package has a line that starts with the
\* name of the field and a colon
Provides(stdout, field) ==
  \E i \in DOMAIN stdout : stdout[i].key # "" /\ FieldName(stdout[i].key) = field

====
